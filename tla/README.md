# TLA+ models of the matchmaking backend

Specifications of the FastAPI backend in `src/app` and of its migrations in
`src/migrations`, checked with TLC on small instances, and theorems about them
proved with TLAPS for every instance. Paths below are relative to `src/app`
unless they begin with `src/`.

## The system

The backend is a set of stateless API processes and ARQ workers around one
PostgreSQL database and one Redis. An HTTP request authenticates
(`api/deps.py`), calls a service (`services/`), which reads and flushes rows
through repositories (`repositories/`), and the router then calls
`session.commit()`. Whatever raises before that leaves the session without a
commit, which rolls the transaction back. Requests share nothing in memory:
they interact through the tables, their unique keys and their row locks, and
through a few keys in Redis that no transaction covers. Before the service
starts, a one-shot job migrates the database and seeds it.

### Inventory

| Component | State | Operations | Interacts with | Correct when |
|---|---|---|---|---|
| Discovery (`swipe_service`, `match_service`) | `swipes`, `matches`, NEW_LIKE and NEW_MATCH notifications | swipe, unmatch | blocks, account status, notifications | a match needs a like each way, is made once, announced once, never revives |
| Blocks (`block_service`) | `blocks` | block, unblock | ends matches; gates swipes and conversations | a block leaves no active match |
| Account status (`admin_user_service`, `profile_service`) | columns of `users` | suspend, ban, unban, delete, restore, verify | gates every request, revokes sessions | banned and deleted accounts take part in nothing new; a ban holds until it is lifted |
| Messaging (`message_service`) | `conversations`, participants, `messages`, `read_at` | start, send, mark read | matches, blocks, notifications | only people who matched talk, and nobody else hears it |
| Payments (`payment_service`) | `payments` | checkout, webhook, deferred webhook, refund | the provider, subscriptions, verifications | paid exactly if delivered, webhooks idempotent |
| Subscriptions (`subscription_service`) | `subscriptions`, `subscription_plans` | activate or renew, expire | payments, the expiry job | one running row, every paid day granted, none twice |
| Job verifications (`verification_service`) | `job_verifications` | submit, pay, review, expire | payments, reviewers | follows its status machine |
| Sessions (`auth_service`, `otp_service`) | `refresh_tokens`, one-time secrets in Redis | register, login, refresh, logout, reset, verify, change password | Redis, account status, administrators | a token, link or code works once; a revocation ends every session there was |
| Two factors (`totp_service`) | `user_totp_secrets`, `totp_recovery_codes` | setup, enable, disable, administrators' reset, verify | login | required only with a confirmed secret |
| Administrators, roles (`admin_user_service`, `permission_service`) | `users.role`, `role_permissions` | change role, create, disable, enable, set permissions | every admin router, the seed | a SUPER_ADMIN is changed by one only; the last edit decides |
| Photos, reports, shares | one table each | upload, choose, delete, review; report, assign, transition, act; share, revoke, expire | account status, sessions | one profile photo; a decision stays until somebody takes it up again |
| Configuration (`app_config_service`) | `app_config`, a Redis copy | create, update, deactivate, read | Redis, the seed | readers see the committed version up to the writes they overlap |
| Campaigns (`notification_campaign_service`) | `notification_campaigns`, notifications, ARQ's queue | create, process in batches | workers, account status | each recipient once, and counted |
| Workers (`workers/`) | none of their own | expiry jobs, deferred webhook, campaigns, anonymization | all tables | idempotent, safe beside requests |
| Migrations and seed (`src/migrations`, `seed.py`) | the schema, its revision, lookup rows | upgrade, downgrade, seed | the models in `db/models`, administrators' edits | any history of jobs leaves the schema of the revision; edits survive, but for columns that a downgrade drops |
| Recommendations (`recommendation_service`) | a Redis feed per user | build feed | swipes, matches, blocks | no feed offers somebody excluded |
| Rate limiter (`security/rate_limit.py`) | Redis counters | check | every public router | no more than the limit per window |

Preferences, profile fields, family, astrology, scoring, analytics and the
administrators' queries are reads, or updates of one user's own rows.

### What is hard

* **Interleaving.** `build_engine` (`db/session.py:13`) sets no isolation
  level, so PostgreSQL runs READ COMMITTED and every check-then-write of the
  services spans statements between which others commit.
* **Locks.** An UPDATE by primary key and the INSERT of a unique key wait for
  an open transaction that has written the same row or key. The ORM writes
  only the columns that changed and never repeats the check it made.
* **Failure.** A transaction may be rolled back after any statement. What has
  left the database (a refund, a Redis command, a queued job) is not rolled
  back with it.
* **Two stores.** Redis is best effort (`core/redis.py` swallows errors) and
  its commands run between the statements of a transaction: secrets are read,
  then deleted, then the transaction commits; the cache is invalidated before
  the commit.
* **Delivery.** Providers repeat, reorder and delay webhooks. ARQ runs a job
  again whose worker went away, and not one that raised.
* **Time.** Subscriptions, verifications and shares end on a day and are
  marked by jobs that run at some later time.
* **Deployment.** Migrations and the seed run with every start, on a database
  that administrators have edited.

`PROJECT.json` lists every hazard at its line, with the properties that would
catch it, or the reason why none does.

## Modules

| Module | What it models |
|---|---|
| `AccountStatus` | The columns of `users` that gate requests, as values; the account operations as a function on them. |
| `Matching` | Abstract specification: likes and matches with every operation atomic. |
| `Discovery` | `POST /swipes`, `POST` and `DELETE /blocks/{id}`, `DELETE /matches/{id}` and the account operations, statement by statement. Implements `Matching`. |
| `Messaging` | EXTENDS `Discovery` with conversations, messages and read marks; the two run side by side. |
| `Ledger` | Abstract specification: payments, what they deliver, refunds, decisions and expiry with every operation atomic. |
| `Billing` | Checkout, webhooks, refunds, subscriptions, verifications, reviews, expiry jobs and the passing of days. Implements `Ledger` when requests are serial. |
| `Requests` | What the modules below share: requests that arrive, are worked on, roll back and are answered. |
| `Roles` | Administrators, roles, permissions, the operations on an account that leave its sessions alone, the seed's part in them. EXTENDS `Requests`, `AccountStatus`. |
| `Sessions` | Registration, login, refresh tokens, revocation, one-time secrets in Redis, two factors. EXTENDS `Roles`. |
| `Moderation` | Photos, reports and what they lead to, profile shares. EXTENDS `Sessions`. |
| `Settings` | The application configuration and its copy in Redis. EXTENDS `Sessions`, `ConfigKeys`. |
| `Campaigns` | Notification campaigns, the queue and the worker's job. EXTENDS `Sessions`. |
| `Backend` | Composes the five: one database, one Redis, one set of requests. |
| `ConfigKeys` | The registry of configuration keys and their public names. |
| `Schema` | A database as far as DDL and the seed can break it; the statements as operators on it. |
| `Migrations` | The three Alembic revisions, up and down, as statements of `Schema`. |
| `Models` | The tables that `db/models` declares. |
| `Deployment` | The migrate-and-seed job, the service's start, downgrades, administrators' edits. |
| `DiscoveryProofs`, `MessagingProofs`, `BillingProofs`, `AccessProofs`, `RolesProofs`, `ModerationProofs`, `SettingsProofs`, `DeploymentProofs` | Theorems. |
| `MCDiscovery`, `MCMessaging`, `MCBilling`, `MCAccess`, `MCDeployment` | Constants for TLC. |

### How a transaction is modelled

`Req` is a set of requests that may arrive; each is used once and its element
stands for the id of whatever row it creates. `req[r]` is what it asks for and
`pc[r]` how far it has come: `new`, then the states in `Open`, then one in
`Answered`. A statement that reads something another transaction can change,
and a statement that must wait for a lock, is a step of its own; statements
between them that touch only the request's own rows belong to the step before
or after. The tables are variables and hold what is **committed**. A flushed
write is kept by the request and reaches the table in the commit step. That is
what other transactions see of it: nothing but the lock (`MatchLocked`,
`KeyLocked`, `PaymentLocked`, `RowsLocked`, `RowLocked`, `AddressLocked`).
`Fail` and `Rollback` drop an open request anywhere, and its locks with it. A
commit writes only what the ORM writes: a column whose value differs from the
one that was loaded (`Written`, `Enabled`, `PhotoAfter`, `StatusAfter`,
`RoleCommit`), over the row as it is by then.

Early returns and refusals change nothing; `Discovery`, `Messaging` and
`Billing` end them in an answer, the modules over `Requests` leave them out. A
violated unique key ends in `integrity`, which the application answers as an
internal error (`api/errors.py:83`).

`Discovery`: a swipe is `SwipeCheck` (authentication, `_assert_can_interact`,
duplicate check), `SwipeInsert`, `SwipeRead` (`mutual_like_exists` and
`get_active_between`), `SwipeInsertMatch` and `SwipeCommit`. A block is
`BlockCheck`, `BlockInsert`, `BlockRead`, `BlockEndMatch`, `BlockCommit`; an
unmatch is `UnmatchRead`, `UnmatchWrite`, `UnmatchCommit`; an unblock is
`UnblockDelete`, `UnblockCommit`. An account operation is one step, because no
request reads an account twice and only the three columns matter.

`Messaging`: `StartCheck`, `StartCommit`, `SendCheck`, `SendCommit`,
`ReadCheck`, `ReadCommit`. The LIMIT of `mark_conversation_read` has no ORDER
BY, so `Loads` lets the database pick. `earlier` remembers which requests had
been committed when one began, so that properties can speak of overlap.

`Billing`: a webhook is `WebhookRead` (lookup and terminal check),
`MarkPayment` (flush of the status), `Activate` or `UnderReview`, `Flush`,
`WebhookCommit`; the same handler run by the worker ends in `DeferredEnd`
without a commit. A refund is `RefundRead`, then `ProviderRefunds` or
`ProviderDeclines`, `MarkPayment`, `RefundCommit`. A review is `ReviewRead`,
`Flush`, `ReviewCommit`, a job `ExpireRead`, `Flush`, `ExpireCommit`.
`Checkout` is one step: it only inserts, and nobody can pay before its
response, which follows the commit. `granted` are the `subscription.change`
rows of the audit log, and `refunds` counts what the provider has really paid
back. `Ledger` sees the day, the status of payments, the plans granted
(`Settled`), the end of each user's running subscription (`Ends`), and the
status and expiry of verifications (`Review`, `Due`); every commit is one of its
steps. The provider's money is not part of it: a refund that fails after
the provider has paid is not atomic, and `RefundedOnceUnlessFailed` says what
is left. `Ledger` lets a renewal count from any day between the end of the
running subscription and today, because the clock may pass midnight between
`Activate` and the commit, and lets a reviewer decide in any status, because
the code does.

`Requests` keeps, beside `req` and `pc`, what each request `loaded` and which
requests had been answered `before` it arrived. `Arrives`, `Goes`, `Keeps` and
`Fails` are the shapes of a step; `mix` is where a behaviour started: the
roles of the users, whether two factors are on, and which kinds of request may
come. `Overlap(q, r)` says that neither had been answered when the other came.

`Roles`: `RoleRead` and `CreateRead` check the roles they loaded, `RoleCommit`
writes. `ReviveRead` and `ReviveCommit` are unban, restore and enable.
`EditRead`, `EditLock`, `EditCommit` are the DELETE (which sees what is
committed when it starts, waits, and does not see rows inserted meanwhile) and
the INSERTs of `set_permissions_for_role`. `SeedRead`, `SeedCommit` are the
parts of `seed.py` that meet these tables.

`Sessions`: registering takes three steps, `RegisterCheck`, `RegisterInsert`
(which waits for another with the address, and puts the link in Redis) and
`RegisterCommit`. `TargetRead`, `RevokeList` and `RevokeCommit` are suspend,
ban, delete, disable and revoke-sessions: `revoke_all_for_user` first SELECTs
the tokens, and later writes those rows only. A reset link, a verification
link and an OTP go through `SendSecret`, `UseGet`, `UseDelete` (GET and DEL,
each of which Redis may lose) and the commit; a reset ends in `RevokeList` and
`RevokeCommit`. `TotpRead`, `SetupCommit`, `TotpCommit` are the operations on
two factors and `change_password`; `LoginRead`, `LoginCommit`, `MfaRead`,
`MfaCommit` a login with and without them; `RefreshRead`, `RefreshCommit`
rotation and logout.

`Moderation`: `PhotoRead`, `PhotoCommit` for choosing, deleting and reviewing
a photo; `ReportRead`, `ReportCommit` for assignment and transition;
`ReportAction` begins a suspension or ban from a report, and
`SessionsWithReport` writes the report in the commit that `Sessions` ends it
with. `ShareRead`, `ShareCommit`, `Unshare`, `ShareLapses` are shares.

`Settings`: `ConfigRead`, `ConfigFlush` (with the invalidation, which Redis may
lose), `ConfigCommit`; `ConfigMiss` and `ConfigFill` are a reader that found no
copy; `CacheExpires` is the TTL.

`Campaigns`: `CampaignRead`, `CampaignCommit`, `Enqueue` for the router;
`FanoutRead`, `FanoutBatch`, `FanoutDone`, `FanoutRaises` for the job.
`Rollback` of a job is a worker that went away: the queue still holds it.

`Deployment`: `StartJob` begins an upgrade, which `Commit` follows with the
seed and that with the service; `StartDowngrade` a downgrade. `Statement`
applies the next statement of `todo` to the transaction's `work`, `Abort` ends
the job at any of them. `EditConfig`, `CreateLongKey`, `RenamePlan` and
`GiveRole` are what administrators do in between. A row carries the columns
that an administrator has given a value; dropping a column (`Apply`, `Without`)
takes it out of every row of the table, and adding the column again does not
bring it back, for it has the server default then.

### External assumptions

PostgreSQL at READ COMMITTED as described, with transactional DDL; deadlock
detection is not modelled because no deadlock arises in `Discovery` and
`Billing` (the liveness runs) and no request of the other modules waits while
it holds a lock another waits for. Users are integers in `Discovery` because
the code orders ids. The payment provider is modelled from how
`PaymentProvider` is used: webhooks come at any time, in any number and order,
for payments that were set up; a refund is paid as soon as it is asked for and
answered, or declined. Signatures are not modelled. This is the behaviour of
the mock provider, and of Stripe once its webhooks pass verification: as it
stands `verify_webhook` looks for `payload["_raw"]`, which the router never
sets. A plan's duration is a constant. A day is the unit of time, and two
readings of the clock within one statement are the same. Redis keeps single
keys, may lose any call, and a lost write is a secret nobody uses. ARQ gives a
job to one worker at a time and repeats it if the worker went away. Passwords,
tokens and codes cannot be guessed: a request that presents a wrong one is
refused and left out. The live codes of an authenticator always fit.

## Runs

`expect: pass`:

| Run | Instance | Shows |
|---|---|---|
| `DiscoveryRace` | 2 users, 4 requests, 3 in flight, all three swipe actions | types; `MatchNeedsMutualLikes`, `MatchAnnouncedOnce`, `MatchNeverRevives`; `Discovery` implements `Matching` |
| `DiscoverySerial` | 4 requests, one at a time, account operations too | `MutualLikesMatch`, `BlockEndsMatch`, `NewMatchPartnersReachable` |
| `DiscoveryLive` | 3 requests, all in flight | `RequestsAnswered` |
| `MessagingRace` | 3 discovery and 4 messaging requests, 2 of each in flight | `ConversationNeedsMatch`, `MessageStaysInside`, `OneConversationPerPair` up to overlap, `MarkReadTakesAll` up to the limit |
| `BillingRace` | subscription payments of 1 and 2 days, a verification, 3 requests, all in flight, 2 days | types; `PaidIsDelivered`, `NoMoreThanGranted`, `RefundedWasDelivered` |
| `BillingSerial` | the same, one at a time, 3 days | `GrantedOnce`, `OneActiveSubscription`, `RefundedOnceUnlessFailed`, `RenewalExtends`, `DecisionStands`; `Billing` implements `Ledger` |
| `BillingLive` | a subscription of 1 day and a verification, 3 requests, all in flight, 2 days | `RequestsAnswered` |
| `Access` | 3 users, 14 groups of operations, 3 requests of a group, 2 in flight | types; `RotationIsAtomic`, `SessionsEnd`, `SecretsWorkOnce`, `EnabledMeansConfirmed`, `BanHolds`, `LastEditDecides`, `SuperChangedBySuper`, `OneProfilePhoto`, `DecisionsHold`, `CacheCatchesUp`, `CampaignAccounts` |
| `Deployment` | 4 jobs, each stopped anywhere, edits between them | `RevisionDecidesSchema`, `ServiceFindsItsModel`, `OnlyDataStopsJobs`, `EditsSurvive` |

`expect: violation`, each a disagreement between the code and what it says:

| Run | Property | What happens |
|---|---|---|
| `DiscoveryMissedMatch` | `MutualLikesMatch` | two likes at the same time make no match, for good |
| `BillingDuplicate` | `GrantedOnce` | overlapping deliveries of one webhook grant twice |
| `SeedOverrides` | `OverridesSurviveSeed` | a re-run of the seed gives back a permission that was taken away |

### Serial runs, and properties up to overlap

The services check and then write without a lock or a constraint that would
keep the check true. Two forms of property say precisely what that leaves. The
serial runs show that the logic of the handlers is right when requests come one
at a time. With `MaxInFlight = 2` in their configurations TLC finds every
property of `DiscoverySerial` and of `BillingSerial` violated:

* `BlockEndsMatch`: a block looks for the match before a swipe, past its own
  block check, has committed it (`services/block_service.py:33` says that a
  block ends any active match).
* `NewMatchPartnersReachable`: a ban commits between the check and the match.
* `GrantedOnce`, `ImplementsLedger`: a webhook that read PENDING overwrites
  SUCCESS or REFUNDED (`services/payment_service.py:206`, "already terminal,
  no-op").
* `RenewalExtends`, `OneActiveSubscription`: two renewals, or a renewal and the
  expiry job, read the same row, and a paid period is lost.
* `DecisionStands`: a webhook that read PENDING_PAYMENT overwrites a decision
  committed meanwhile.
* `MutualLikesMatch`: two likes miss each other's rows.
* `RefundedOnceUnlessFailed`: two refunds at once both ask the provider. The
  docstring at `services/payment_service.py:249` calls refunding idempotent; a
  rolled-back one is paid again when repeated, even when nothing overlaps.

The properties of `MessagingRace` and `Access` hold in the concurrent runs
because they name the exception: two conversations, two successors of a refresh
token, two uses of a secret, two profile photos, a decision that an assignment
reopens, a configuration that is served stale, a SUPER_ADMIN changed by an
ADMIN, an unconfirmed second factor happen only if the two requests in question
overlapped (or, for secrets and the cache, if Redis lost a delete). TLC finds
each of these exceptions: without the clause that names it the property is
violated. The clause is the gap in the code, and it is no wider than stated.

### Further disagreements, without a run of their own

* The unique key of `swipes` covers PASS, although PASS rows "may repeat"
  (`src/docs/architecture.md:85`): a repeated PASS is an internal error. A
  LIKE and a SUPER_LIKE of one pair may both be stored when they overlap.
* `review` decides on a verification that is not paid
  (`src/docs/architecture.md:142` gives PENDING_PAYMENT -> UNDER_REVIEW ->
  VERIFIED | REJECTED).
* "Only matched users can message" (`services/message_service.py:77`), but
  `send` looks at neither match nor block: a conversation goes on after both.
* The deferred webhook job (`workers/tasks.py:38`) never commits, and nothing
  enqueues it.
* A refresh, and the second step of a login, do not look at the account's
  status; only the revocation that comes with a suspension ends a session.
* `suspended_until` is written (`services/admin_user_service.py:404`) and never
  read by a gate: no suspension ends by itself.
* A profile share that was revoked cannot be granted again: the unique key
  covers the revoked row, which `get_pair` does not see.
* A campaign larger than one batch notifies the first batch and raises
  `MissingGreenlet` in the next, because the worker's session expires what it
  holds at the commit; it stays SENDING.
* An edit of a role's permissions to nothing makes the role fall back to the
  registry (`permissions_for_role`).
* A mixed-case `DEV_ADMIN_EMAIL` makes every later seed fail: it is looked up
  as spelled and stored in lower case. A plan that was renamed is seeded again.
* A downgrade to the first revision drops `is_active`, `is_public`, `category`
  and `value_type` of `app_config`, and the next upgrade fills them with
  `true`, `true`, APP and STRING: a key that was deactivated is active again,
  and the seed, which finds the key, restores neither the edit nor its own
  values. `value` and `description` are kept. Suspensions, review decisions on
  profiles and the notes of reviewers are lost in the same way below the third
  revision. `EditsSurvive` says that this is all that is lost.

### Bounds

Every property of `Discovery` and `Messaging` is about one pair of users and
every lock is on a row or key of one pair, so two users are enough, and both
orders of their ids occur. A violation found needs at most two overlapping
requests and one or two before them. Four requests, three in flight, give
room for a third that blocks, unmatches or repeats. `MessagingRace` needs its
three discovery requests for two likes and what ends the match, and its four
messaging requests for two starts, a message and a read, or for a start, two
messages and a read with `ReadLimit` 1, which stands for the 500 of the code.

In `Billing` a user with two subscription payments is the smallest case of a
renewal; other users share no row with him, and the verification is there for
the other half of every webhook. Three requests are a payment, another and
whatever meets the two: a refund, a review, an expiry or the repetition of a
webhook. `MaxTime` lets a subscription end, be renewed after its end and
expire. `BillingLive` has one subscription payment, of one day, and two days:
a repeated webhook of it that renews, after waiting for the payment, and the
expiry job wait for each other's subscription row in either order, as do
reviews and `expire_job_verifications` for a verification. The deferred job,
which takes the locks of a webhook and only lets go of them differently, is
left out of that run.

In `Access` each member of `MCMixes` is a start (roles of two people, two
factors on or off, a third address without account) and the operations that
may come: those that read or write the same rows and Redis keys. Operations of
different groups touch different tables, or meet in the columns of one account,
for which `Mix8`, `Mix11` and `Mix14` put the two sides together. Each property
relates two requests that touch one row, and two in flight with a third before
or after them is the smallest behaviour in which a check is stale or an answer
comes late. Audiences of one and two users with `BatchSize` 1 are a campaign of
one batch and of several. The theorems below remove these bounds for every
property of the run.

In `Deployment` `MaxJobs` is 4: an installation, a downgrade, an upgrade and
one more job, or any of them failing. Each job can stop at each of its
statements. The edited key gets a `value`, which every revision has, and an
`is_active`, which the first has not.

Deadlock checking is off: each request and job is used once, so the instance
really stops when all have been answered. Symmetry is over requests only, and
not used in the liveness runs.

### Fairness

`FairSpec` assumes weak fairness of `Continue(r)` for each request, that is,
the event loop resumes a coroutine whose statement can complete. Nothing is
assumed about arrivals, failures, the passing of days or account operations.
The modules over `Requests` state no liveness: their requests wait for one row
at a time and hold none that another's wait depends on, and what they promise
about delivery (a campaign is sent, a cache is refreshed) hangs on a queue and
a Redis that the code allows to lose anything. `CacheCatchesUp` and
`CampaignAccounts` say what is true whenever something was delivered.

### Faults

Operators whose name begins with `Fault` are not part of a specification. Each
is a plausible bug of the definition below it; `PROJECT.json` names the
property that fails when it takes that definition's place.

## Proofs

Each theorem holds for all users, requests, roles, audiences and degrees of
concurrency that the named assumptions of the constants allow.

`DiscoveryProofs`, from the assumptions in `Discovery`:

* `Invariant`: `Spec => []IInv`. `MatchNeedsMutualLikes` is not inductive,
  because a swipe inserts a match on the strength of a like it read two steps
  earlier. `IInv` adds what such a request remembers and why it is still true
  at its commit: `SwipeSawLike` (likes are never deleted), `EnderSawRow`
  (match rows are never deleted), `StagedFits` and `OneWriter` (a written row
  is locked), `WritesLast` and `Asked` (where a request can be).
* `TypeCorrect`, `MutualLikesNeeded`, `EndedStaysEnded` (an action property,
  each commit taken in turn) and `Refinement`, which maps every step to a step
  of `Matching` or a stutter, follow from it.
* `AnnouncedOnce`: a match row and its notifications have one author, the swipe
  that committed them (`ToldByCreator`, `OneCreator`), because a second INSERT
  of the row is refused. The set that is counted is then a singleton.
* `MutualLikesSuffice`, `BlockEnds` and `NewMatchReachable` are about a serial
  load (see below).

`MessagingProofs` composes with it: every behaviour of `MSpec` is one of
`Discovery` (`DiscoveryInside`), so `IInv` is there to use, and match rows,
once there, stay.

* `MessagingInvariant`: an open start has seen a match (`StartSawMatch`) and no
  conversation older than itself (`StartSawNone`), an open send or read is a
  participant's (`Participates`).
* `ConversationsNeedMatches`, `MessagesStayInside`, `ConversationsOverlap`
  follow; `ConversationsNeedLikes`, which says that people who have a
  conversation liked each other, joins it with `MutualLikesNeeded`.
* `MarkReadTakes`: what an open read has loaded is a page of `ReadLimit`
  messages, or everything unread that is older than the request (`ReadInv`).

`BillingProofs`, from the assumptions in `Billing`:

* `Invariant`: `PaidIsDelivered` and `RefundedWasDelivered` with the facts that
  carry them from a request's reads to its commit. A webhook that commits
  SUCCESS either inserts a subscription, extends one of the payer's
  (`RenewsOwn`), moves the verification on, or has seen that it is past
  payment (`SeenPaid`), and a refund under way has seen a delivered payment
  (`RefundsDelivered`). These stay true because grants and rows are never
  deleted and no verification returns to PENDING_PAYMENT.
* `TypeCorrect`, `PaymentsDeliver`, `RefundsFollowDelivery` follow.
* `NobodyGetsMore`, for every degree of concurrency: the expiry an open webhook
  has computed is covered by the days granted so far and those of its own grant
  (`PromisesCovered`), whatever was extended, granted or expired since it read;
  a commit always adds a grant, because its id is new (`GrantsCommitted`). The
  days granted are counted as a set, one element for each day of each grant, so
  that facts about cardinalities are all the proof needs.
* `GrantedAtMostOnce`, `OneSubscription`, `RefundedOnce`, `TerminalStays`,
  `DecisionsStand` and `RenewalsExtend` are about a serial load.
* `LedgerKept`, about a serial load too, maps every step to a step of `Ledger`
  or a stutter, one lemma for each kind of commit (`CheckoutOrders`,
  `FailureBounces`, `SuccessSettlesPlan`, `SuccessSettlesVerification`,
  `RefundPaysBack`, `ReviewDecides`, `ExpiryLapses`). `SerialInv` bounds a
  renewal from below only; `ExactInv` adds the bound from above
  (`RenewsExactly`), that what an expiry job has loaded is still over
  (`StillOver`) and that a review that writes no status repeats the one there
  is (`StillDecided`). `TerminalIsFinal`, which no run lists since `Ledger`
  says it too, keeps its own proof.

The theorems about a serial load have the form `MaxInFlight = 1 => (Spec =>
...)`, which is how the serial runs are configured; the same properties fail for
any larger limit. They bound neither the requests nor their order, failures and
repetitions. `LoadLimit` proves in both modules that `Admit` keeps the open
transactions within `MaxInFlight` (`LoadBounded`). With a limit of one there is
never a second (`OneOpen`), so what the open one has read is still what the
tables say (`SeenStands`): the accounts and blocks a swipe has checked, the
status a webhook has found, the subscription it will extend. `SerialInv` adds
what a property needs beside that: a payment that was granted is terminal
(`GrantedIsTerminal`), and the provider has paid back at most once more than
refunds have failed (`RefundsCounted`).

The four modules over `Backend` share a frame, in `AccessProofs`: `HInv` (the
history in `pc` and `before` is in order, so that `OpenOverlaps`: a request
still open overlaps whoever is answered meanwhile) and `UInv` (types of what
is read), and lemmas that sort every step of `Backend` into one that takes a
request on (`Advances`) and leaves the tables in question alone, and the few
that write them. What each adds is the strengthening that makes its property
inductive.

* `AccessProofs!RotationHolds`: whoever minted a token has committed
  (`MintersCommitted`), and an open refresh saw its token active when it came,
  so that a successor made since was made by a request it overlaps
  (`RefreshSaw`).
* `AccessProofs!SessionsEndHolds`: the rows a revocation has listed are all
  the active ones older than the request (`ListComplete`); tokens made
  afterwards are from requests that overlap it.
* `AccessProofs!SecretsHold`: a value in Redis was issued by who began
  (`LinksIssued`), an open use past its DEL has taken it away or found Redis
  deaf (`LinksGone`), and two uses of one link overlapped (`LinksOnce`);
  `CodesIssued`, `CodesMarked`, `CodesOnce` are the same for recovery codes,
  whose mark is in the database.
* `RolesProofs!BansHold`: a ban that has committed, or that loaded the flag
  set and will not write it, finds it set at the end unless an unban has
  committed since (`BanSaw`); nothing else clears it, because a commit writes
  the columns it changed over the current row. `SuperRoleHolds`: an open
  change of a SUPER_ADMIN's role was checked against that role or overlaps the
  promotion (`RoleSaw`), and one address has one registration in its INSERT
  (`RegistersAlone`). `LastEditHolds`: a row of a role that an open edit has
  not listed for its DELETE was made by an edit or a seed that had not been
  answered when it came (`EditSaw`, `GrantsMade`), and then that edit is not
  the last.
* `RolesProofs!FactorsConfirmed`: a secret that is not the one an open
  request has loaded was put there by a setup that committed after the request
  came, and a setup that would leave the flag as it found it, off, while it is
  now on overlaps the confirmation that set it (`TotpSaw`). `SessionsTyped`
  joins the invariants of the three modules with the types of passwords and
  Redis keys.
* `ModerationProofs!ProfilePhotosHold`: an open choice has listed every photo
  that held the flag before it came (`PhotoSaw`, `PhotoReads`).
  `DecisionsAreKept`: who may still write a decided report either asks for
  another status, or saw it decided, or overlaps the decision (`DecidedSaw`,
  `AssignSaw`).
* `SettingsProofs!CacheHolds`: an open reader's payload is the committed one
  or a write overlaps it (`ReaderFresh`); between a write's flush and its
  commit the copy is gone, or from an overlapping reader, or the delete was
  lost (`WriterCleared`).
* `SettingsProofs!CampaignsAccount`: one run at a time works on a campaign
  (`OneRun`, ARQ's promise), and where it has got to is what the row says: it
  has notified nobody before its batch, and as many as the row counts after it
  (`RunFits`). A run that has committed leaves its campaign done, and no run
  begins on one that is done (`NotesFit`). Audiences are finite sets of users,
  the one assumption the counting needs.

`DeploymentProofs`, for any number of jobs and any edited keys:

* `EditsKept`. The argument is about the kinds of statements, not about the
  tables: an upgrade only creates, adds and widens, so its transaction keeps
  every row; the seed only inserts what it finds missing; a downgrade only
  drops (`Upgrading`, `Seeding`, `Downgrading`). What it loses was in a table or
  a column that is gone: `Shrinks(d, e)` relates the committed database to the
  transaction's, holds of a database and itself (`ShrinksNothing`), composes
  (`ShrinksTwice`) and holds of every statement of a downgrade (`DownApplies`),
  for which no two tables may have one name (`Orderly`). That each job consists
  of such statements is proved from the revisions as they are written.
* `SchemaByRevision`, `ServiceOnItsModel` and `NothingBreaks` rest on
  `DeploymentOnItsWay`: the committed database is like the shape of its
  revision (`Shaped`), and what is left of a job leads from a shape that its
  transaction is like to the shape of the revision it ends at (`OnItsWay`). A
  shape is a set of tables, a width and whether the new roles are admitted;
  `Leads(a, q, b)` says that the statements in q, one after another, are broken
  on no database like a and leave one like b. Tables created in an order in
  which every reference goes back (`Layered`) lead from the tables before to
  the tables with them (`Creates`), and dropping them in reverse leads back
  (`Drops`), because the rest refers to none of them; columns that are added
  can be dropped again (`Alters`). `ShapeAt` writes the shape of each revision
  as the parts of the migrations it consists of; `SchemaShapes` shows that the
  fold in `SchemaAt` arrives at the same, and `ThirdIsModel` that the last one
  is `Model`, table by table. For the seed the invariant keeps, of each name it
  promises, that it is inserted or still to be (`SeedGoesOn`), and for the
  service that edits replace a row only by one of its name (`Served`).
* A fold is a recursion, and what it computes is proved by induction over the
  positions of a sequence. The induction is about a set of numbers
  (`Induction`, from the well-foundedness of < on the naturals), not about an
  operator; each use names the set.

The invariants (`IInv`, `AnnouncedInv`, `CoveredInv`, `SerialInv`, `ExactInv`,
`KInv`, `DInv`, `RInv`) were also checked by TLC on the instances of the runs.

Only model-checked: liveness under fairness (`RequestsAnswered` in
`DiscoveryLive` and `BillingLive`), which is out of the prover's reach. Every
invariant and action property of the passing runs is a theorem. In `RInv` the
statements left to a job lead to a schema through some sequence of shapes; on
the instances TLC checked what that comes to, that applying them ends there.

## Not modelled

* **Recommendations**: scoring is arithmetic on profile data. The feed is a
  cached read that changes no table; nothing invalidates it, so it may show
  people who have been swiped, blocked or banned, and the swipe checks again.
* **Rate limiter**: a fixed window in Redis with a clock of its own, which
  fails open and shares no state with the rest. INCR and EXPIRE are two
  commands: a crash between them leaves a counter that never ends.
* **Preferences, profile fields, family, astrology**: one user's own rows,
  written whole by one request, read by filters.
* **Analytics, administrators' lists and details, audit log**: queries and
  appended rows. Of the audit log only the `subscription.change` rows matter,
  in `Billing`.
* **Administrators' web client**: a user interface over the API.
* **Parts of modelled components**: the editing of subscription plans (a plan's
  duration is a constant of `Billing`), `cleanup_deleted_accounts` (anonymizes
  rows nobody reads again), warning a user and editing a profile from a report
  (a notification and two flags), access tokens (nothing revokes one before it
  expires), presigned uploads and storage, e-mail, SMS and push (they log), and
  the pages of messages (`repositories/message_repo.py:68` continues a page at
  an id although rows are ordered by time).

## Plan

1. **Discovery, Matching, AccountStatus, Messaging, Billing** and their proofs:
   done.
2. **Roles, Sessions, Moderation, Settings, Campaigns** over `Requests`,
   composed in `Backend`, and their proofs: done.
3. **Schema, Migrations, Models, Deployment**: done.
4. The properties of serial loads, the counting properties and the survival of
   edits proved: done.
5. The schema of each revision written out as a set of tables, and with it
   `Deployment` proved; an abstract `Ledger` that `Billing` implements when
   requests are serial: done.
6. Next: what is listed under "Not modelled" and could meet the rest, first
   the editing of plans between checkout and payment.

Runs keep to two or three actors and a few minutes each.
