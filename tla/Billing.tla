------------------------------ MODULE Billing ------------------------------
(***************************************************************************)
(* Payments, the provider's webhooks, refunds, subscriptions, paid job     *)
(* verifications and the expiry jobs.                                      *)
(*                                                                         *)
(* As in Discovery, a request (or a run of a job) is one transaction at    *)
(* READ COMMITTED and a member of Req is one of them.  A row of            *)
(* subscriptions has the id of the request that inserted it, a row of      *)
(* job_verifications that of the payment it was submitted with.            *)
(*                                                                         *)
(* The payment provider is outside the repository: any webhook may arrive  *)
(* at any time and any number of times for a payment that was set up, and  *)
(* a refund is carried out as soon as the provider is asked.               *)
(***************************************************************************)
EXTENDS Integers, FiniteSets, FiniteSetsExt

CONSTANTS
  User,
  Payment,      \* the checkouts that may be made
  Owner,        \* whose they are,
  Kind,         \* what they pay for
  Days,         \* and the duration_days of the plan a subscription is for
  Req,          \* the requests that may arrive
  Ops,          \* the kinds of request that may arrive
  Validity,     \* the expires_in_days of a review
  MaxTime,      \* the last day
  MaxInFlight   \* how many requests are worked on at the same time

PaymentType == {"SUBSCRIPTION", "JOB_VERIFICATION"}
WebhookOps  == {"webhook", "deferred"}
JobOps      == {"expire_subscriptions", "expire_job_verifications"}
AllOps      == WebhookOps \cup JobOps \cup {"refund", "review"}

ASSUME CheckoutAssumption ==
  /\ Owner \in [Payment -> User]
  /\ Kind \in [Payment -> PaymentType]
  /\ Days \in [Payment -> Nat]
ASSUME BillingLoadAssumption ==
  /\ Ops \subseteq AllOps
  /\ Validity \in Nat /\ MaxTime \in Nat /\ MaxInFlight \in Nat \ {0}
ASSUME KeyAssumption == Req \cap Payment = {}

VARIABLES
  now,      \* the day
  payment,  \* status of each row of payments, "NONE" before checkout
  subs,     \* rows of subscriptions
  ver,      \* rows of job_verifications
  granted,  \* "subscription.change" rows of audit_logs: <<request, payment>>
  refunds,  \* how often the provider has paid a payment back
  req,      \* what each request asks for
  pc,       \* how far it has come
  staged,   \* the status it is going to write, or "NONE"
  rows,     \* the subscriptions or verifications it has loaded to change
  until     \* the expires_at it has computed for them

tables == <<payment, subs, ver, granted>>
work   == <<req, staged, rows, until>>
vars   == <<now, payment, subs, ver, granted, refunds, req, pc, staged, rows, until>>

PaymentStatus == {"PENDING", "SUCCESS", "FAILED", "REFUNDED"}
VerStatus     == {"NONE", "PENDING_PAYMENT", "UNDER_REVIEW", "VERIFIED", "REJECTED", "EXPIRED"}
SubRow        == [user : User, status : {"ACTIVE", "EXPIRED"}, expires : Nat]
NoSub         == [status |-> "NONE"]
Decision      == {"VERIFIED", "REJECTED"}
Outcome       == {"SUCCESS", "FAILED", "OTHER"}
Request       == [op : AllOps \ JobOps, pay : Payment, out : Outcome \cup Decision]
NoRequest     == [op |-> "none"]

Open     == {"read", "asked", "locked", "looked", "ready"}
Answered == {"committed", "rejected", "dropped", "failed"}

Init ==
  /\ now = 0
  /\ payment = [p \in Payment |-> "NONE"]
  /\ subs = [i \in Req |-> NoSub]
  /\ ver = [p \in Payment |-> [status |-> "NONE", expires |-> 0]]
  /\ granted = {}
  /\ refunds = [p \in Payment |-> 0]
  /\ req = [r \in Req |-> NoRequest]
  /\ pc = [r \in Req |-> "new"]
  /\ staged = [r \in Req |-> "NONE"]
  /\ rows = [r \in Req |-> {}]
  /\ until = [r \in Req |-> 0]

-----------------------------------------------------------------------------
Admit(r, op) ==
  /\ pc[r] = "new"
  /\ op \in Ops
  /\ Cardinality({q \in Req : pc[q] \in Open}) < MaxInFlight

Go(r, s) == pc' = [pc EXCEPT ![r] = s]

\* Request r asks for q and reaches step s; st is what it will write.
Begin(r, q, s, st) ==
  /\ req' = [req EXCEPT ![r] = q]
  /\ staged' = [staged EXCEPT ![r] = st]
  /\ Go(r, s)

\* Webhooks and refunds flush the status of a payment.
WritesPayment(r) == req[r].op \in WebhookOps \cup {"refund"}

\* Fault: a rollback keeps the row lock.
FaultPaymentLocked(r) ==
  \E q \in Req \ {r} :
    /\ pc[q] \in {"locked", "looked", "ready", "failed"}
    /\ WritesPayment(q) /\ req[q].pay = req[r].pay /\ staged[q] # "NONE"

\* Another open transaction has written the payment of r.
PaymentLocked(r) ==
  \E q \in Req \ {r} :
    /\ pc[q] \in {"locked", "looked", "ready"}
    /\ WritesPayment(q) /\ req[q].pay = req[r].pay /\ staged[q] # "NONE"

\* Another open transaction has written a row that r is going to write.
RowsLocked(r) == \E q \in Req \ {r} : pc[q] = "ready" /\ rows[q] \cap rows[r] # {}

-----------------------------------------------------------------------------
(***************************************************************************)
(* Checkout: SubscriptionService.checkout and VerificationService.submit.  *)
(* One step, for it inserts new rows only and the customer can pay no      *)
(* earlier than its response reaches him, after the commit.                *)
(***************************************************************************)
Checkout(p) ==
  /\ payment[p] = "NONE"
  /\ payment' = [payment EXCEPT ![p] = "PENDING"]
  /\ ver' = [ver EXCEPT ![p].status =
               IF Kind[p] = "JOB_VERIFICATION" THEN "PENDING_PAYMENT" ELSE "NONE"]
  /\ UNCHANGED <<now, subs, granted, refunds, pc, work>>

-----------------------------------------------------------------------------
(***************************************************************************)
(* POST /payments/webhook/{provider}, and the job process_payment_webhook  *)
(* ("deferred"), which calls the same handler.                             *)
(***************************************************************************)

\* Fault: a refunded payment may succeed again.
FaultTerminal(s) == s = "SUCCESS"

\* "Already terminal": the webhook is a duplicate.
Terminal(s) == s \in {"SUCCESS", "REFUNDED"}

\* A failed payment may fail again, which writes nothing, or succeed later;
\* an event of another kind is acknowledged.
WebhookRead(r, op, p, o) ==
  /\ Admit(r, op)
  /\ payment[p] # "NONE"
  /\ Begin(r, [op |-> op, pay |-> p, out |-> o],
           IF Terminal(payment[p]) \/ o = "OTHER" THEN "rejected" ELSE "read",
           IF Terminal(payment[p]) \/ o \in {"OTHER", payment[p]} THEN "NONE" ELSE o)
  /\ UNCHANGED <<now, tables, refunds, rows, until>>

\* _mark_success, _mark_failed and, after the provider has paid, refund flush
\* the new status: the UPDATE waits for the row and does not look at its
\* status again.
MarkPayment(r) ==
  /\ pc[r] = "read"
  /\ staged[r] = "NONE" \/ ~PaymentLocked(r)
  /\ Go(r, IF req[r].out = "SUCCESS" THEN "locked" ELSE "ready")
  /\ UNCHANGED <<now, tables, refunds, work>>

\* Fault: only the current day.
FaultStartsToday(i) == now

\* A renewal starts where the running subscription ends.
StartsAt(i) == IF subs[i].expires > now THEN subs[i].expires ELSE now

\* Fault: does not see a subscription that is over but not yet EXPIRED.
FaultActive(u) ==
  {i \in Req : subs[i] # NoSub /\ subs[i].user = u /\ subs[i].status = "ACTIVE"
                 /\ subs[i].expires > now}

\* The rows get_active selects from, over or not.
Active(u) ==
  {i \in Req : subs[i] # NoSub /\ subs[i].user = u /\ subs[i].status = "ACTIVE"}

\* activate_from_payment: the one of them that expires last, if any.
Activate(r) ==
  LET p == req[r].pay
      A == Active(Owner[p])
  IN
  /\ pc[r] = "locked" /\ Kind[p] = "SUBSCRIPTION"
  /\ \/ /\ A = {}
        /\ rows' = [rows EXCEPT ![r] = {}]
        /\ until' = [until EXCEPT ![r] = now + Days[p]]
     \/ \E i \in A :
          /\ \A j \in A : subs[j].expires <= subs[i].expires
          /\ rows' = [rows EXCEPT ![r] = {i}]
          /\ until' = [until EXCEPT ![r] = StartsAt(i) + Days[p]]
  /\ Go(r, "looked")
  /\ UNCHANGED <<now, tables, refunds, req, staged>>

\* Fault: puts any verification back under review.
FaultUnderReview(r) ==
  /\ pc[r] = "locked" /\ Kind[req[r].pay] = "JOB_VERIFICATION"
  /\ rows' = [rows EXCEPT ![r] = {req[r].pay}]
  /\ Go(r, "looked")
  /\ UNCHANGED <<now, tables, refunds, req, staged, until>>

\* Fault: starts from the wrong state.
FaultLostReview(r) ==
  LET p == req[r].pay IN
  /\ pc[r] = "locked" /\ Kind[p] = "JOB_VERIFICATION"
  /\ rows' = [rows EXCEPT ![r] = IF ver[p].status = "UNDER_REVIEW" THEN {p} ELSE {}]
  /\ Go(r, "looked")
  /\ UNCHANGED <<now, tables, refunds, req, staged, until>>

\* mark_under_review_from_payment
UnderReview(r) ==
  LET p == req[r].pay IN
  /\ pc[r] = "locked" /\ Kind[p] = "JOB_VERIFICATION"
  /\ rows' = [rows EXCEPT ![r] = IF ver[p].status = "PENDING_PAYMENT" THEN {p} ELSE {}]
  /\ Go(r, "looked")
  /\ UNCHANGED <<now, tables, refunds, req, staged, until>>

\* The rows that are to change are flushed, here and in the operations
\* below: UPDATEs by primary key, which wait for them.
Flush(r) ==
  /\ pc[r] = "looked"
  /\ ~RowsLocked(r)
  /\ Go(r, "ready")
  /\ UNCHANGED <<now, tables, refunds, work>>

\* Fault: takes the event's word for the status.
FaultPaymentAfter(r) == [payment EXCEPT ![req[r].pay] = req[r].out]

\* The payment as it will be once r commits.
PaymentAfter(r) ==
  IF staged[r] = "NONE" THEN payment ELSE [payment EXCEPT ![req[r].pay] = staged[r]]

\* Fault: a renewal adds the days of the plan once more when it is written.
FaultSubsAfter(r) ==
  IF rows[r] = {}
  THEN [subs EXCEPT ![r] = [user |-> Owner[req[r].pay], status |-> "ACTIVE", expires |-> until[r]]]
  ELSE [i \in Req |-> IF i \in rows[r]
                      THEN [subs[i] EXCEPT !.expires = until[r] + Days[req[r].pay]] ELSE subs[i]]

\* A subscription is extended or made; the status of one that was loaded as
\* ACTIVE has not changed and is not written.
SubsAfter(r) ==
  IF rows[r] = {}
  THEN [subs EXCEPT ![r] = [user |-> Owner[req[r].pay], status |-> "ACTIVE", expires |-> until[r]]]
  ELSE [i \in Req |-> IF i \in rows[r] THEN [subs[i] EXCEPT !.expires = until[r]] ELSE subs[i]]

WebhookCommit(r) ==
  LET p == req[r].pay IN
  /\ pc[r] = "ready" /\ req[r].op = "webhook"
  /\ payment' = PaymentAfter(r)
  /\ \/ /\ req[r].out = "SUCCESS" /\ Kind[p] = "SUBSCRIPTION"
        /\ subs' = SubsAfter(r)
        /\ granted' = granted \cup {<<r, p>>}
        /\ UNCHANGED ver
     \/ /\ req[r].out = "SUCCESS" /\ Kind[p] = "JOB_VERIFICATION"
        /\ ver' = [ver EXCEPT ![p].status = IF p \in rows[r] THEN "UNDER_REVIEW" ELSE @]
        /\ UNCHANGED <<subs, granted>>
     \/ /\ req[r].out = "FAILED"
        /\ UNCHANGED <<subs, ver, granted>>
  /\ Go(r, "committed")
  /\ UNCHANGED <<now, refunds, work>>

\* process_payment_webhook leaves its session without a commit.
DeferredEnd(r) ==
  /\ pc[r] = "ready" /\ req[r].op = "deferred"
  /\ Go(r, "dropped")
  /\ UNCHANGED <<now, tables, refunds, work>>

-----------------------------------------------------------------------------
(***************************************************************************)
(* POST /admin/payments/{id}/refund.                                       *)
(***************************************************************************)

\* Fault: refunds a payment in any state.
FaultRefundable(s) == s # "NONE"

Refundable(s) == s = "SUCCESS"

RefundRead(r, p) ==
  /\ Admit(r, "refund")
  /\ payment[p] # "NONE"
  /\ Begin(r, [op |-> "refund", pay |-> p, out |-> "OTHER"],
           IF Refundable(payment[p]) THEN "asked" ELSE "rejected",
           IF Refundable(payment[p]) THEN "REFUNDED" ELSE "NONE")
  /\ UNCHANGED <<now, tables, refunds, rows, until>>

\* provider.refund: money moves, and no rollback brings it back.
ProviderRefunds(r) ==
  /\ pc[r] = "asked"
  /\ refunds' = [refunds EXCEPT ![req[r].pay] = @ + 1]
  /\ Go(r, "read")
  /\ UNCHANGED <<now, tables, work>>

\* Or the provider declines.
ProviderDeclines(r) ==
  /\ pc[r] = "asked"
  /\ Go(r, "rejected")
  /\ UNCHANGED <<now, tables, refunds, work>>

RefundCommit(r) ==
  /\ pc[r] = "ready" /\ req[r].op = "refund"
  /\ payment' = PaymentAfter(r)
  /\ Go(r, "committed")
  /\ UNCHANGED <<now, subs, ver, granted, refunds, work>>

-----------------------------------------------------------------------------
(***************************************************************************)
(* POST /admin/verifications/job/{id}/review.  Nothing is asked of the     *)
(* status the verification has.  The new one is written unless it is the   *)
(* one that was loaded; an approval always writes a new expiry.            *)
(***************************************************************************)
ReviewRead(r, p, d) ==
  /\ Admit(r, "review")
  /\ ver[p].status # "NONE"
  /\ Begin(r, [op |-> "review", pay |-> p, out |-> d], "looked",
           IF ver[p].status = d THEN "NONE" ELSE d)
  /\ rows' = [rows EXCEPT ![r] = {p}]
  /\ until' = [until EXCEPT ![r] = now + Validity]
  /\ UNCHANGED <<now, tables, refunds>>

ReviewCommit(r) ==
  LET p == req[r].pay IN
  /\ pc[r] = "ready" /\ req[r].op = "review"
  /\ ver' = [ver EXCEPT ![p] =
               [status  |-> IF staged[r] = "NONE" THEN @.status ELSE staged[r],
                expires |-> IF req[r].out = "VERIFIED" THEN until[r] ELSE @.expires]]
  /\ Go(r, "committed")
  /\ UNCHANGED <<now, payment, subs, granted, refunds, work>>

-----------------------------------------------------------------------------
(***************************************************************************)
(* The jobs expire_subscriptions and expire_job_verifications: one         *)
(* transaction for all rows that are due.                                  *)
(***************************************************************************)

\* Fault: a subscription is over on its last day.
FaultOver(t) == t <= now

Over(t) == t < now

ExpireRead(r, op) ==
  /\ Admit(r, op)
  /\ Begin(r, [op |-> op], "looked", "NONE")
  /\ rows' = [rows EXCEPT ![r] =
       IF op = "expire_subscriptions"
       THEN {i \in Req : subs[i] # NoSub /\ subs[i].status = "ACTIVE" /\ Over(subs[i].expires)}
       ELSE {p \in Payment : ver[p].status = "VERIFIED" /\ Over(ver[p].expires)}]
  /\ UNCHANGED <<now, tables, refunds, until>>

ExpireCommit(r) ==
  /\ pc[r] = "ready" /\ req[r].op \in JobOps
  /\ subs' = [i \in Req |-> IF i \in rows[r] THEN [subs[i] EXCEPT !.status = "EXPIRED"] ELSE subs[i]]
  /\ ver' = [p \in Payment |-> IF p \in rows[r] THEN [ver[p] EXCEPT !.status = "EXPIRED"] ELSE ver[p]]
  /\ Go(r, "committed")
  /\ UNCHANGED <<now, payment, granted, refunds, work>>

-----------------------------------------------------------------------------
\* The process dies or a statement fails: the transaction is rolled back.
Fail(r) ==
  /\ pc[r] \in Open
  /\ Go(r, "failed")
  /\ UNCHANGED <<now, tables, refunds, work>>

Tick ==
  /\ now < MaxTime
  /\ now' = now + 1
  /\ UNCHANGED <<tables, refunds, pc, work>>

Arrive(r) ==
  \/ \E p \in Payment :
       \/ \E op \in WebhookOps, o \in Outcome : WebhookRead(r, op, p, o)
       \/ RefundRead(r, p)
       \/ \E d \in Decision : ReviewRead(r, p, d)
  \/ \E op \in JobOps : ExpireRead(r, op)

Continue(r) ==
  \/ MarkPayment(r) \/ Activate(r) \/ UnderReview(r) \/ Flush(r)
  \/ WebhookCommit(r) \/ DeferredEnd(r)
  \/ ProviderRefunds(r) \/ ProviderDeclines(r) \/ RefundCommit(r)
  \/ ReviewCommit(r) \/ ExpireCommit(r)

Next ==
  \/ Tick
  \/ \E p \in Payment : Checkout(p)
  \/ \E r \in Req : Arrive(r) \/ Continue(r) \/ Fail(r)

Spec == Init /\ [][Next]_vars

\* The event loop resumes a request whose statement has completed.
FairSpec == Spec /\ \A r \in Req : WF_vars(Continue(r))

-----------------------------------------------------------------------------
(***************************************************************************)
(* Properties that hold however requests interleave.                       *)
(***************************************************************************)

\* Tables and requests have their types.
TypeOK ==
  /\ now \in Nat
  /\ payment \in [Payment -> PaymentStatus \cup {"NONE"}]
  /\ subs \in [Req -> SubRow \cup {NoSub}]
  /\ ver \in [Payment -> [status : VerStatus, expires : Nat]]
  /\ granted \subseteq Req \X Payment
  /\ refunds \in [Payment -> Nat]
  /\ req \in [Req -> Request \cup {NoRequest} \cup [op : JobOps]]
  /\ pc \in [Req -> {"new"} \cup Open \cup Answered]
  /\ staged \in [Req -> {"NONE", "SUCCESS", "FAILED", "REFUNDED", "VERIFIED", "REJECTED"}]
  /\ rows \in [Req -> SUBSET (Req \cup Payment)]
  /\ until \in [Req -> Nat]

\* The owner of p has been granted his subscription and has a row of it, or
\* the verification that p paid for has come before a reviewer.
Delivered(p) ==
  \/ /\ Kind[p] = "SUBSCRIPTION"
     /\ \E r \in Req : <<r, p>> \in granted
     /\ \E i \in Req : subs[i] # NoSub /\ subs[i].user = Owner[p]
  \/ /\ Kind[p] = "JOB_VERIFICATION"
     /\ ver[p].status \notin {"NONE", "PENDING_PAYMENT"}

\* What is paid is delivered, in the same commit: payments and subscriptions
\* or verifications transition atomically, whatever fails in between.
PaidIsDelivered ==
  \A p \in Payment : payment[p] \in {"SUCCESS", "REFUNDED"} => Delivered(p)

\* The days that user u was granted so far, each grant with its own.
DaysGranted(u) == UNION {{g} \X (1 .. Days[g[2]]) : g \in {h \in granted : Owner[h[2]] = u}}

GrantedDays(u) == Cardinality(DaysGranted(u))

\* Nobody is premium longer than was granted to him, whatever two renewals,
\* or a renewal and an expiry, make of the same row.
NoMoreThanGranted ==
  \A i \in Req : subs[i] # NoSub => subs[i].expires <= now + GrantedDays(subs[i].user)

\* Money goes back only for what was delivered, also when a late webhook
\* overwrites the status that the refund has read.
RefundedWasDelivered == \A p \in Payment : refunds[p] > 0 => Delivered(p)

\* Every request is answered: webhooks lock a payment and then at most one
\* other row, refunds only a payment, reviews and jobs only the other rows.
RequestsAnswered ==
  \A r \in Req : pc[r] \in Open ~> pc[r] \in Answered

-----------------------------------------------------------------------------
(***************************************************************************)
(* Properties the code has as long as requests are served one at a time    *)
(* (MaxInFlight = 1); requests that overlap break all of them.             *)
(***************************************************************************)

\* Idempotent by payment: a payment is granted at most once, however often
\* the provider repeats its webhook.
GrantedOnce ==
  \A g, h \in granted : g[2] = h[2] => g = h

\* Already terminal, no-op: a successful payment can only be paid back, and
\* one that was paid back stays so.
TerminalIsFinal ==
  [][\A p \in Payment :
       /\ payment[p] = "SUCCESS" => payment'[p] \in {"SUCCESS", "REFUNDED"}
       /\ payment[p] = "REFUNDED" => payment'[p] = "REFUNDED"]_vars

\* Refunding is idempotent: a payment is paid back a second time only when a
\* request has failed after the provider had paid it back, and at most once
\* for each that did.
RefundedOnceUnlessFailed ==
  \A p \in Payment :
    refunds[p] <= 1 + Cardinality({r \in Req : /\ pc[r] = "failed"
                                              /\ req[r].op = "refund" /\ req[r].pay = p})

\* A user has one running subscription: renewals extend it.
OneActiveSubscription ==
  \A i, j \in Req :
    /\ subs[i].status = "ACTIVE" /\ subs[j].status = "ACTIVE"
    /\ subs[i].user = subs[j].user
    => i = j

LastExpiry(u) == Max({subs[i].expires : i \in Active(u)} \cup {0})

\* Successful subscription payment: subscription created or extended, by the
\* full duration of the plan that was paid for.
RenewalExtends ==
  [][\A r \in Req, p \in Payment :
       <<r, p>> \in granted' \ granted =>
         LastExpiry(Owner[p])' >= LastExpiry(Owner[p]) + Days[p]]_vars

\* What a reviewer decided is changed only by another decision or by expiry,
\* not by a late webhook.
DecisionStands ==
  [][\A p \in Payment :
       ver[p].status \in Decision => ver'[p].status \in Decision \cup {"EXPIRED"}]_vars

\* What a customer sees of the tables: which plans were granted, when his
\* subscription ends, and how his verifications stand.
Settled == {p \in Payment : \E r \in Req : <<r, p>> \in granted}
Ends    == [u \in User |-> LastExpiry(u)]
Review  == [p \in Payment |-> ver[p].status]
Due     == [p \in Payment |-> ver[p].expires]

\* Served one at a time, Billing implements the abstract ledger: whatever
\* webhooks, refunds, reviews and expiry jobs do in several statements looks
\* like one atomic step of it, or like nothing at all.
Account == INSTANCE Ledger WITH
  day <- now, status <- payment, settled <- Settled, ends <- Ends, review <- Review, due <- Due

ImplementsLedger == Account!LSpec

-----------------------------------------------------------------------------
(***************************************************************************)
(* The strengthening that makes PaidIsDelivered and RefundedWasDelivered   *)
(* inductive.  What has been delivered stays delivered: grants and rows    *)
(* are never deleted and no verification returns to PENDING_PAYMENT.  So   *)
(* what a request has seen of it is still true when it commits.            *)
(***************************************************************************)

\* Where a request that writes a payment can be.
PathOK(r) ==
  /\ pc[r] = "locked" => req[r].op \in WebhookOps
  /\ pc[r] = "asked" => req[r].op = "refund"
  /\ pc[r] = "read" => req[r].op \in WebhookOps \cup {"refund"}

\* A request writes what it was asked to, or nothing.
StagedFits(r) ==
  /\ req[r].op \in WebhookOps => req[r].out \in Outcome /\ staged[r] \in {"NONE", req[r].out}
  /\ req[r].op = "refund" => req[r].out = "OTHER" /\ staged[r] \in {"NONE", "REFUNDED"}
  /\ req[r].op = "review" => req[r].out \in Decision /\ staged[r] \in {"NONE", req[r].out}

\* What a request has loaded exists.
LoadedExists(r) ==
  \A i \in rows[r] :
    /\ i \in Req => subs[i] # NoSub
    /\ i \in Payment => ver[i].status # "NONE"

\* A webhook or a refund is about a payment that was set up, a review about
\* a verification that was submitted.
TargetExists(r) ==
  /\ req[r].op \in WebhookOps \cup {"refund"} => payment[req[r].pay] # "NONE"
  /\ req[r].op = "review" => ver[req[r].pay].status # "NONE"

\* A webhook that has processed a success and is about to commit it ...
Delivers(r) ==
  pc[r] \in {"looked", "ready"} /\ req[r].op \in WebhookOps /\ req[r].out = "SUCCESS"

\* ... has loaded a subscription of the payer or none, ...
RenewsOwn(r) ==
  Delivers(r) /\ Kind[req[r].pay] = "SUBSCRIPTION" =>
    \A i \in rows[r] : i \in Req /\ subs[i].user = Owner[req[r].pay]

\* ... and leaves the verification alone only if it is past payment.
SeenPaid(r) ==
  Delivers(r) /\ Kind[req[r].pay] = "JOB_VERIFICATION" =>
    req[r].pay \in rows[r] \/ Delivered(req[r].pay)

\* A refund under way has seen a successful payment.
RefundsDelivered(r) == req[r].op = "refund" /\ pc[r] \in Open => Delivered(req[r].pay)

RequestOK(r) ==
  /\ PathOK(r) /\ StagedFits(r) /\ LoadedExists(r) /\ TargetExists(r)
  /\ RenewsOwn(r) /\ SeenPaid(r) /\ RefundsDelivered(r)

\* Only a committed request has made a subscription.
MadeByCommitted == \A i \in Req : subs[i] # NoSub => pc[i] = "committed"

\* A verification is made together with its payment.
VerificationExists ==
  \A p \in Payment :
    ver[p].status # "NONE" <=> payment[p] # "NONE" /\ Kind[p] = "JOB_VERIFICATION"

IInv ==
  /\ TypeOK
  /\ \A r \in Req : RequestOK(r)
  /\ MadeByCommitted /\ VerificationExists
  /\ PaidIsDelivered /\ RefundedWasDelivered

-----------------------------------------------------------------------------
(***************************************************************************)
(* What makes NoMoreThanGranted inductive: an open webhook has computed an *)
(* expiry that its own grant will cover, whatever was granted or extended  *)
(* since; a grant has the id of a request that has committed, so a commit  *)
(* always adds one.                                                        *)
(***************************************************************************)
PromisesCovered ==
  \A r \in Req :
    Delivers(r) /\ Kind[req[r].pay] = "SUBSCRIPTION" =>
      until[r] <= now + GrantedDays(Owner[req[r].pay]) + Days[req[r].pay]

GrantsCommitted ==
  /\ \A u \in User : IsFiniteSet(DaysGranted(u))
  /\ \A g \in granted : pc[g[1]] = "committed"

CoveredInv == GrantsCommitted /\ PromisesCovered /\ NoMoreThanGranted

-----------------------------------------------------------------------------
(***************************************************************************)
(* What makes the properties of a serial load inductive.  There is never   *)
(* more than one open transaction, so what it has read is still true of    *)
(* the tables.  Checkouts and the clock do go on meanwhile.                *)
(***************************************************************************)
InWork == {r \in Req : pc[r] \in Open}

\* The servers are never loaded beyond their limit.
LoadBounded == IsFiniteSet(InWork) /\ Cardinality(InWork) <= MaxInFlight

OneOpen == \A q, r \in InWork : q = r

\* A webhook writes what it was told unless the payment says so already.
StillNews(r) ==
  LET s == payment[req[r].pay] IN
  /\ ~Terminal(s) /\ req[r].out # "OTHER"
  /\ staged[r] = IF req[r].out = s THEN "NONE" ELSE req[r].out

StillRefundable(r) == Refundable(payment[req[r].pay]) /\ staged[r] = "REFUNDED"

\* A renewal has loaded the running subscription, a first activation has
\* found none, and each adds the full duration.
StillRenews(r) ==
  LET p == req[r].pay
      A == Active(Owner[p])
  IN
  \/ rows[r] = {} /\ A = {} /\ until[r] >= Days[p]
  \/ \E i \in A : rows[r] = {i} /\ until[r] >= subs[i].expires + Days[p]

StillUnpaid(r) == \A p \in rows[r] : p = req[r].pay /\ ver[p].status = "PENDING_PAYMENT"

SeenStands ==
  \A r \in InWork :
    /\ req[r].op \in WebhookOps => StillNews(r)
    /\ req[r].op = "refund" => StillRefundable(r)
    /\ Delivers(r) /\ Kind[req[r].pay] = "SUBSCRIPTION" => StillRenews(r)
    /\ Delivers(r) /\ Kind[req[r].pay] = "JOB_VERIFICATION" => StillUnpaid(r)

GrantedIsTerminal == \A g \in granted : Terminal(payment[g[2]])

\* The refunds of p that have failed, and whether one is recorded, or under
\* way and beyond the provider.
FailedRefunds(p) == {r \in Req : pc[r] = "failed" /\ req[r].op = "refund" /\ req[r].pay = p}

PaidBack(p) ==
  \/ payment[p] = "REFUNDED"
  \/ \E r \in InWork : req[r].op = "refund" /\ req[r].pay = p /\ pc[r] # "asked"

RefundsCounted ==
  \A p \in Payment :
    /\ IsFiniteSet(FailedRefunds(p))
    /\ refunds[p] <= Cardinality(FailedRefunds(p)) + IF PaidBack(p) THEN 1 ELSE 0

SerialInv ==
  /\ OneOpen /\ SeenStands
  /\ GrantedIsTerminal /\ GrantedOnce
  /\ OneActiveSubscription
  /\ RefundsCounted

-----------------------------------------------------------------------------
(***************************************************************************)
(* What the implementation of Ledger needs besides: nothing an open        *)
(* request has computed is later than it would be if computed today, and   *)
(* what it has found over, or decided already, still is.                   *)
(***************************************************************************)

\* A renewal adds no more than the days of its plan.
RenewsExactly(r) ==
  LET p == req[r].pay IN
  /\ rows[r] = {} => until[r] <= now + Days[p]
  /\ \A i \in rows[r] : until[r] = subs[i].expires + Days[p] \/ until[r] <= now + Days[p]

\* An expiry job has loaded what is over.
StillOver(r) ==
  \A i \in rows[r] :
    \/ i \in Req /\ subs[i].status = "ACTIVE" /\ Over(subs[i].expires)
    \/ i \in Payment /\ ver[i].status = "VERIFIED" /\ Over(ver[i].expires)

\* A job loads rows of one table.
OneTable(r) == rows[r] \subseteq Req \/ rows[r] \subseteq Payment

\* A review has nothing to write only if it repeats the decision.
StillDecided(r) ==
  /\ staged[r] = "NONE" => ver[req[r].pay].status = req[r].out
  /\ Validity <= until[r] /\ until[r] <= now + Validity

Exact(r) ==
  /\ Delivers(r) /\ Kind[req[r].pay] = "SUBSCRIPTION" => RenewsExactly(r)
  /\ req[r].op \in JobOps => StillOver(r) /\ OneTable(r)
  /\ req[r].op = "review" => StillDecided(r)

ExactInv == \A r \in InWork : Exact(r)

=============================================================================
