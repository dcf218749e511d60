--------------------------- MODULE BillingProofs ---------------------------
(***************************************************************************)
(* Proofs about Billing for any users, payments, plans and requests, any   *)
(* load and any time.                                                      *)
(***************************************************************************)
EXTENDS Billing, FiniteSetTheorems, TLAPS

USE DEF NoSub, SubRow, PaymentType, WebhookOps, JobOps, AllOps, PaymentStatus, VerStatus,
        Decision, Outcome, Request, NoRequest, Open, Answered

\* Operations that name a payment.
PayOp(r) == req[r].op \in WebhookOps \cup {"refund", "review"}

\* What a step never takes back: deliveries, payments, verifications and
\* whose a subscription is.
Grows ==
  /\ \A p \in Payment : Delivered(p) => Delivered(p)'
  /\ \A p \in Payment : payment[p] # "NONE" => payment'[p] # "NONE"
  /\ \A p \in Payment : ver[p].status # "NONE" => ver'[p].status # "NONE"
  /\ \A i \in Req : subs[i] # NoSub => subs'[i] # NoSub /\ subs'[i].user = subs[i].user

\* Request o does nothing.
Rests(o) ==
  req'[o] = req[o] /\ pc'[o] = pc[o] /\ staged'[o] = staged[o] /\ rows'[o] = rows[o]

-----------------------------------------------------------------------------
\* A request that names a payment is well-formed.
LEMMA NamesPayment ==
  ASSUME TypeOK, NEW r \in Req, PayOp(r)
  PROVE  req[r] \in Request /\ req[r].pay \in Payment
  BY DEF TypeOK, PayOp

\* A loaded subscription that is changed is still one of the same user.
LEMMA RowChange ==
  ASSUME NEW s \in SubRow, NEW t \in Nat, NEW e \in {"ACTIVE", "EXPIRED"}
  PROVE  /\ [s EXCEPT !.expires = t] \in SubRow /\ [s EXCEPT !.expires = t].user = s.user
         /\ [s EXCEPT !.status = e] \in SubRow /\ [s EXCEPT !.status = e].user = s.user
         /\ s # NoSub
  OBVIOUS

\* Nothing is taken back by a step that leaves the tables alone.
LEMMA SameGrows ==
  ASSUME UNCHANGED tables
  PROVE  Grows /\ \A p \in Payment : Delivered(p)' <=> Delivered(p)
  BY DEF tables, Grows, Delivered

\* What holds of a request keeps holding while others work.
LEMMA RestsOK ==
  ASSUME TypeOK, Grows, NEW o \in Req, RequestOK(o), Rests(o)
  PROVE  RequestOK(o)'
<1> USE DEF Rests
<1>1. PathOK(o)' /\ StagedFits(o)'
  BY DEF RequestOK, PathOK, StagedFits
<1>2. LoadedExists(o)'
  BY DEF RequestOK, LoadedExists, Grows
<1>3. PayOp(o) => req[o].pay \in Payment
  BY NamesPayment
<1>4. TargetExists(o)'
  BY <1>3 DEF RequestOK, TargetExists, Grows, PayOp
<1>5. RenewsOwn(o)'
  BY DEF RequestOK, RenewsOwn, Delivers, LoadedExists, Grows
<1>6. SeenPaid(o)'
  BY <1>3 DEF RequestOK, SeenPaid, Delivers, Grows, PayOp
<1>7. RefundsDelivered(o)'
  BY <1>3 DEF RequestOK, RefundsDelivered, Grows, PayOp
<1> QED
  BY <1>1, <1>2, <1>4, <1>5, <1>6, <1>7 DEF RequestOK

-----------------------------------------------------------------------------
\* The initial state satisfies the invariant.
LEMMA InvInit == Init => IInv
<1> SUFFICES ASSUME Init PROVE IInv
  OBVIOUS
<1>1. TypeOK
  BY DEF Init, TypeOK
<1>2. ASSUME NEW r \in Req PROVE RequestOK(r)
  BY DEF Init, RequestOK, PathOK, StagedFits, LoadedExists, TargetExists, Delivers,
         RenewsOwn, SeenPaid, RefundsDelivered
<1>3. MadeByCommitted /\ VerificationExists /\ PaidIsDelivered /\ RefundedWasDelivered
  BY DEF Init, MadeByCommitted, VerificationExists, PaidIsDelivered, RefundedWasDelivered
<1> QED
  BY <1>1, <1>2, <1>3 DEF IInv

(***************************************************************************)
(* A step of a request before its commit: the tables stay, the others      *)
(* rest, and what is new about r has been checked.                         *)
(***************************************************************************)
LEMMA WorkStep ==
  ASSUME IInv, TypeOK', NEW r \in Req, UNCHANGED tables, pc[r] # "committed",
         \A o \in Req \ {r} : Rests(o),
         RequestOK(r)',
         RefundedWasDelivered'
  PROVE  IInv'
<1>1. Grows
  BY SameGrows
<1>2. \A o \in Req : RequestOK(o)'
  BY <1>1, RestsOK DEF IInv
<1>3. MadeByCommitted'
  BY DEF IInv, MadeByCommitted, tables, Rests
<1>4. VerificationExists'
  BY DEF IInv, VerificationExists, tables
<1>5. PaidIsDelivered'
  BY SameGrows DEF IInv, PaidIsDelivered, tables
<1> QED
  BY <1>2, <1>3, <1>4, <1>5 DEF IInv

\* A request that arrives.
LEMMA ArriveStep ==
  ASSUME IInv, NEW r \in Req, Arrive(r)
  PROVE  IInv'
<1> USE DEF IInv, Admit, Begin, Go
<1>1. pc[r] = "new" /\ UNCHANGED <<tables, refunds, now>>
  BY DEF Arrive, WebhookRead, RefundRead, ReviewRead, ExpireRead
<1>2. RefundedWasDelivered'
  BY <1>1, SameGrows DEF RefundedWasDelivered
<1>3. ASSUME NEW op \in WebhookOps, NEW p \in Payment, NEW o \in Outcome, WebhookRead(r, op, p, o)
      PROVE  IInv'
  <2>1. TypeOK'
    BY <1>3 DEF TypeOK, WebhookRead, tables
  <2>2. RequestOK(r)'
    BY <1>3 DEF TypeOK, WebhookRead, tables, RequestOK, PathOK, StagedFits, LoadedExists,
                TargetExists, Delivers, RenewsOwn, SeenPaid, RefundsDelivered
  <2>3. \A q \in Req \ {r} : Rests(q)
    BY <1>3 DEF TypeOK, WebhookRead, Rests
  <2> QED
    BY <1>1, <1>2, <2>1, <2>2, <2>3, WorkStep
<1>4. ASSUME NEW p \in Payment, RefundRead(r, p)
      PROVE  IInv'
  <2>1. TypeOK'
    BY <1>4 DEF TypeOK, RefundRead, tables
  <2>2. Refundable(payment[p]) => Delivered(p)'
    BY <1>1, SameGrows DEF Refundable, PaidIsDelivered
  <2>3. RequestOK(r)'
    BY <1>4, <2>2 DEF TypeOK, RefundRead, tables, RequestOK, PathOK, StagedFits, LoadedExists,
                TargetExists, Delivers, RenewsOwn, SeenPaid, RefundsDelivered
  <2>4. \A q \in Req \ {r} : Rests(q)
    BY <1>4 DEF TypeOK, RefundRead, Rests
  <2> QED
    BY <1>1, <1>2, <2>1, <2>3, <2>4, WorkStep
<1>5. ASSUME NEW p \in Payment, NEW d \in Decision, ReviewRead(r, p, d)
      PROVE  IInv'
  <2>1. TypeOK'
    BY <1>5, BillingLoadAssumption DEF TypeOK, ReviewRead, tables
  <2>2. RequestOK(r)'
    BY <1>5, KeyAssumption
       DEF TypeOK, ReviewRead, tables, RequestOK, PathOK, StagedFits, LoadedExists,
           TargetExists, Delivers, RenewsOwn, SeenPaid, RefundsDelivered
  <2>3. \A q \in Req \ {r} : Rests(q)
    BY <1>5 DEF TypeOK, ReviewRead, Rests
  <2> QED
    BY <1>1, <1>2, <2>1, <2>2, <2>3, WorkStep
<1>6. ASSUME NEW op \in JobOps, ExpireRead(r, op)
      PROVE  IInv'
  <2>1. TypeOK'
    BY <1>6 DEF TypeOK, ExpireRead, tables
  <2>2. RequestOK(r)'
    BY <1>6, KeyAssumption
       DEF TypeOK, ExpireRead, tables, RequestOK, PathOK, StagedFits, LoadedExists,
           TargetExists, Delivers, RenewsOwn, SeenPaid, RefundsDelivered
  <2>3. \A q \in Req \ {r} : Rests(q)
    BY <1>6 DEF TypeOK, ExpireRead, Rests
  <2> QED
    BY <1>1, <1>2, <2>1, <2>2, <2>3, WorkStep
<1> QED
  BY <1>3, <1>4, <1>5, <1>6 DEF Arrive

(***************************************************************************)
(* A step that writes tables: nothing is taken back, and what the step     *)
(* makes new is in order.                                                  *)
(***************************************************************************)
LEMMA CommitStep ==
  ASSUME IInv, TypeOK', Grows, NEW r \in Req, pc[r] = "ready",
         pc' = [pc EXCEPT ![r] = "committed"], UNCHANGED <<now, refunds, work>>,
         \A i \in Req \ {r} : subs[i] = NoSub => subs'[i] = NoSub,
         \A p \in Payment : payment[p] = "NONE" => payment'[p] = "NONE",
         \A p \in Payment : ver[p].status = "NONE" => ver'[p].status = "NONE",
         PaidIsDelivered'
  PROVE  IInv'
<1> USE DEF IInv, work
<1>1. \A o \in Req \ {r} : Rests(o)
  BY DEF TypeOK, Rests
<1>2. \A o \in Req \ {r} : RequestOK(o)'
  BY <1>1, RestsOK
<1>3. pc'[r] = "committed" /\ req'[r] = req[r] /\ rows'[r] = rows[r] /\ staged'[r] = staged[r]
  BY DEF TypeOK
<1>4. RequestOK(r)'
  <2>1. RequestOK(r)
    OBVIOUS
  <2>2. PathOK(r)' /\ RenewsOwn(r)' /\ SeenPaid(r)' /\ RefundsDelivered(r)'
    BY <1>3 DEF PathOK, RenewsOwn, SeenPaid, RefundsDelivered, Delivers
  <2>3. StagedFits(r)'
    BY <1>3, <2>1 DEF RequestOK, StagedFits
  <2>4. LoadedExists(r)'
    BY <1>3, <2>1 DEF RequestOK, LoadedExists, Grows
  <2>5. TargetExists(r)'
    BY <1>3, <2>1, NamesPayment DEF RequestOK, TargetExists, Grows, PayOp
  <2> QED
    BY <2>2, <2>3, <2>4, <2>5 DEF RequestOK
<1>5. MadeByCommitted'
  BY <1>1, <1>3 DEF MadeByCommitted, Rests
<1>6. VerificationExists'
  <2> SUFFICES ASSUME NEW p \in Payment
               PROVE  ver'[p].status # "NONE" <=> payment'[p] # "NONE" /\ Kind[p] = "JOB_VERIFICATION"
    BY DEF VerificationExists
  <2>1. (payment[p] = "NONE" <=> payment'[p] = "NONE")
    BY DEF Grows
  <2>2. (ver[p].status = "NONE" <=> ver'[p].status = "NONE")
    BY DEF Grows
  <2> QED
    BY <2>1, <2>2 DEF VerificationExists
<1>7. RefundedWasDelivered'
  BY DEF RefundedWasDelivered, Grows
<1> QED
  BY <1>2, <1>4, <1>5, <1>6, <1>7

\* The status of a payment after the commit of the request that wrote it.
LEMMA PaymentAfterFacts ==
  ASSUME IInv, NEW r \in Req, req[r].op \in WebhookOps \cup {"refund"}
  PROVE  /\ PaymentAfter(r) \in [Payment -> PaymentStatus \cup {"NONE"}]
         /\ \A p \in Payment : payment[p] = "NONE" <=> PaymentAfter(r)[p] = "NONE"
         /\ \A p \in Payment : p # req[r].pay => PaymentAfter(r)[p] = payment[p]
         /\ staged[r] = "NONE" => PaymentAfter(r) = payment
<1>1. req[r].pay \in Payment /\ payment[req[r].pay] # "NONE"
  BY NamesPayment DEF IInv, RequestOK, TargetExists, PayOp
<1>2. staged[r] \in {"NONE", "SUCCESS", "FAILED", "REFUNDED"}
  <2>1. CASE req[r].op \in WebhookOps
    <3>1. req[r].out \in {"SUCCESS", "FAILED", "OTHER"} /\ staged[r] \in {"NONE", req[r].out}
      BY <2>1 DEF IInv, RequestOK, StagedFits
    <3> QED
      BY <3>1 DEF IInv, TypeOK
  <2>2. CASE req[r].op = "refund"
    BY <2>2 DEF IInv, RequestOK, StagedFits
  <2> QED
    BY <2>1, <2>2
<1> QED
  BY <1>1, <1>2 DEF PaymentAfter, IInv, TypeOK

-----------------------------------------------------------------------------
(***************************************************************************)
(* The steps of an open request before its commit.                         *)
(***************************************************************************)
LEMMA OpenSteps ==
  ASSUME IInv, NEW r \in Req,
         \/ MarkPayment(r) \/ Activate(r) \/ UnderReview(r) \/ Flush(r) \/ DeferredEnd(r)
         \/ ProviderRefunds(r) \/ ProviderDeclines(r) \/ Fail(r)
  PROVE  IInv'
<1> USE DEF IInv, Go, work
<1> DEFINE Same == UNCHANGED <<tables, now, req, staged>>
<1>1. pc[r] \in Open /\ Same
  BY DEF MarkPayment, Activate, UnderReview, Flush, DeferredEnd, ProviderRefunds,
         ProviderDeclines, Fail
<1>2. RequestOK(r) /\ TypeOK
  OBVIOUS
<1>3. ASSUME UNCHANGED refunds PROVE RefundedWasDelivered'
  BY <1>1, <1>3, SameGrows DEF RefundedWasDelivered
<1>4. CASE MarkPayment(r)
  <2>1. TypeOK' /\ (\A q \in Req \ {r} : Rests(q)) /\ UNCHANGED refunds
    BY <1>4, <1>1 DEF MarkPayment, TypeOK, Rests, tables
  <2>2. RequestOK(r)'
    BY <1>4, <1>1, <1>2, SameGrows, NamesPayment
       DEF MarkPayment, TypeOK, tables, RequestOK, PathOK, StagedFits, LoadedExists,
           TargetExists, Delivers, RenewsOwn, SeenPaid, RefundsDelivered, PayOp
  <2> QED
    BY <1>1, <1>3, <2>1, <2>2, WorkStep
<1>5. CASE Activate(r)
  <2>1. req[r].op \in WebhookOps /\ req[r].pay \in Payment
    BY <1>5, <1>2, NamesPayment DEF Activate, RequestOK, PathOK, PayOp
  <2>2. Days[req[r].pay] \in Nat /\ Owner[req[r].pay] \in User
    BY <2>1, CheckoutAssumption
  <2>3. \A i \in Active(Owner[req[r].pay]) :
          i \in Req /\ subs[i] # NoSub /\ subs[i].user = Owner[req[r].pay] /\ StartsAt(i) \in Nat
    BY <1>2 DEF Active, StartsAt, TypeOK
  <2>4. TypeOK' /\ (\A q \in Req \ {r} : Rests(q)) /\ UNCHANGED refunds
    <3>1. \/ /\ rows' = [rows EXCEPT ![r] = {}]
             /\ until' = [until EXCEPT ![r] = now + Days[req[r].pay]]
          \/ \E i \in Active(Owner[req[r].pay]) :
               /\ rows' = [rows EXCEPT ![r] = {i}]
               /\ until' = [until EXCEPT ![r] = StartsAt(i) + Days[req[r].pay]]
      BY <1>5 DEF Activate
    <3>2. now \in Nat
      BY <1>2 DEF TypeOK
    <3>3. \E t \in Nat, R \in SUBSET Req :
            until' = [until EXCEPT ![r] = t] /\ rows' = [rows EXCEPT ![r] = R]
      <4>1. CASE rows' = [rows EXCEPT ![r] = {}] /\ until' = [until EXCEPT ![r] = now + Days[req[r].pay]]
        <5>1. now + Days[req[r].pay] \in Nat
          BY <3>2, <2>2
        <5> QED
          BY <4>1, <5>1
      <4>2. ASSUME NEW i \in Active(Owner[req[r].pay]),
                   rows' = [rows EXCEPT ![r] = {i}],
                   until' = [until EXCEPT ![r] = StartsAt(i) + Days[req[r].pay]]
            PROVE  \E t \in Nat, R \in SUBSET Req :
                     until' = [until EXCEPT ![r] = t] /\ rows' = [rows EXCEPT ![r] = R]
        <5>1. StartsAt(i) + Days[req[r].pay] \in Nat /\ {i} \in SUBSET Req
          BY <2>2, <2>3
        <5> QED
          BY <4>2, <5>1
      <4> QED
        BY <3>1, <4>1, <4>2
    <3> QED
      BY <3>3, <1>5, <1>1 DEF Activate, TypeOK, Rests, tables
  <2>5. rows'[r] \subseteq Active(Owner[req[r].pay])
    <3>1. \/ rows' = [rows EXCEPT ![r] = {}]
          \/ \E i \in Active(Owner[req[r].pay]) : rows' = [rows EXCEPT ![r] = {i}]
      BY <1>5 DEF Activate
    <3>2. DOMAIN rows = Req
      BY <1>2 DEF TypeOK
    <3> QED
      BY <3>1, <3>2
  <2>6. RequestOK(r)'
    <3>1. \A i \in rows'[r] :
             i \in Req /\ i \notin Payment /\ subs'[i] # NoSub /\ subs'[i].user = Owner[req[r].pay]
      BY <2>3, <2>5, <1>1, KeyAssumption DEF tables
    <3>2. pc'[r] = "looked" /\ req'[r] = req[r] /\ staged'[r] = staged[r]
          /\ payment' = payment /\ ver' = ver
      BY <1>5, <1>1, <1>2 DEF Activate, TypeOK, tables
    <3>3. Kind[req[r].pay] # "JOB_VERIFICATION" /\ req[r].op # "refund"
      BY <1>5, <2>1 DEF Activate
    <3>4. PathOK(r)' /\ StagedFits(r)' /\ TargetExists(r)'
      BY <3>2, <1>2 DEF RequestOK, PathOK, StagedFits, TargetExists
    <3>5. LoadedExists(r)' /\ RenewsOwn(r)'
      BY <3>1, <3>2 DEF LoadedExists, RenewsOwn
    <3>6. SeenPaid(r)' /\ RefundsDelivered(r)'
      BY <3>2, <3>3 DEF SeenPaid, RefundsDelivered
    <3> QED
      BY <3>4, <3>5, <3>6 DEF RequestOK
  <2> QED
    BY <1>1, <1>3, <2>4, <2>6, WorkStep
<1>6. CASE UnderReview(r)
  <2>1. req[r].op \in WebhookOps /\ req[r].pay \in Payment /\ payment[req[r].pay] # "NONE"
    BY <1>6, <1>2, NamesPayment DEF UnderReview, RequestOK, PathOK, TargetExists, PayOp
  <2>2. TypeOK' /\ (\A q \in Req \ {r} : Rests(q)) /\ UNCHANGED refunds
    BY <1>6, <1>1, <2>1 DEF UnderReview, TypeOK, Rests, tables
  <2>3. ver[req[r].pay].status \in {"NONE", "PENDING_PAYMENT"} \/ Delivered(req[r].pay)
    BY <1>6 DEF UnderReview, Delivered
  <2>4. ver[req[r].pay].status # "NONE"
    BY <1>6, <2>1 DEF UnderReview, VerificationExists
  <2>5. req[r].pay \in rows'[r] \/ Delivered(req[r].pay)'
    BY <1>1, <1>6, <2>1, <2>3, <2>4, SameGrows DEF UnderReview, TypeOK
  <2>6. rows'[r] \subseteq {req[r].pay}
    BY <1>6 DEF UnderReview, TypeOK
  <2>7. RequestOK(r)'
    BY <1>6, <1>1, <1>2, <2>1, <2>4, <2>5, <2>6, KeyAssumption
       DEF UnderReview, TypeOK, tables, RequestOK, PathOK, StagedFits, LoadedExists,
           TargetExists, Delivers, RenewsOwn, SeenPaid, RefundsDelivered
  <2> QED
    BY <1>1, <1>3, <2>2, <2>7, WorkStep
<1>7. CASE Flush(r)
  <2>1. TypeOK' /\ (\A q \in Req \ {r} : Rests(q)) /\ UNCHANGED refunds
    BY <1>7, <1>1 DEF Flush, TypeOK, Rests, tables
  <2>2. RequestOK(r)'
    BY <1>7, <1>1, <1>2, SameGrows, NamesPayment
       DEF Flush, TypeOK, tables, RequestOK, PathOK, StagedFits, LoadedExists,
           TargetExists, Delivers, RenewsOwn, SeenPaid, RefundsDelivered, PayOp
  <2> QED
    BY <1>1, <1>3, <2>1, <2>2, WorkStep
<1>8. CASE ProviderRefunds(r)
  <2>1. req[r].op = "refund" /\ req[r].pay \in Payment /\ Delivered(req[r].pay)
    BY <1>8, <1>2, NamesPayment DEF ProviderRefunds, RequestOK, PathOK, RefundsDelivered, PayOp
  <2>2. TypeOK' /\ (\A q \in Req \ {r} : Rests(q))
    BY <1>8, <1>1, <2>1 DEF ProviderRefunds, TypeOK, Rests, tables
  <2>3. RequestOK(r)'
    BY <1>8, <1>1, <1>2, <2>1, SameGrows
       DEF ProviderRefunds, TypeOK, tables, RequestOK, PathOK, StagedFits, LoadedExists,
           TargetExists, Delivers, RenewsOwn, SeenPaid, RefundsDelivered
  <2>4. \A p \in Payment : refunds'[p] > 0 => refunds[p] > 0 \/ p = req[r].pay
    BY <1>8, <2>1 DEF ProviderRefunds, TypeOK
  <2>5. RefundedWasDelivered'
    BY <1>1, <2>1, <2>4, SameGrows DEF RefundedWasDelivered
  <2> QED
    BY <1>1, <2>2, <2>3, <2>5, WorkStep
<1>9. CASE DeferredEnd(r) \/ ProviderDeclines(r) \/ Fail(r)
  <2>1. /\ TypeOK' /\ (\A q \in Req \ {r} : Rests(q)) /\ UNCHANGED <<refunds, rows>>
        /\ pc'[r] \in {"dropped", "rejected", "failed"}
    BY <1>9, <1>1 DEF DeferredEnd, ProviderDeclines, Fail, TypeOK, Rests, tables
  <2>2. RequestOK(r)'
    BY <1>1, <1>2, <2>1
       DEF tables, RequestOK, PathOK, StagedFits, LoadedExists,
           TargetExists, Delivers, RenewsOwn, SeenPaid, RefundsDelivered
  <2> QED
    BY <1>1, <1>3, <2>1, <2>2, WorkStep
<1> QED
  BY <1>4, <1>5, <1>6, <1>7, <1>8, <1>9

-----------------------------------------------------------------------------
(***************************************************************************)
(* The commits.                                                            *)
(***************************************************************************)

\* What has been delivered and set up stays, when subscriptions keep their
\* users, grants are kept and verifications stay past payment.
LEMMA GrowsBy ==
  ASSUME granted \subseteq granted',
         \A i \in Req : subs[i] # NoSub => subs'[i] # NoSub /\ subs'[i].user = subs[i].user,
         \A p \in Payment : payment[p] # "NONE" => payment'[p] # "NONE",
         \A p \in Payment : ver[p].status # "NONE" => ver'[p].status # "NONE",
         \A p \in Payment : ver'[p].status = "PENDING_PAYMENT" => ver[p].status \in {"NONE", "PENDING_PAYMENT"}
  PROVE  Grows
<1>1. ASSUME NEW p \in Payment, Delivered(p)
      PROVE  Delivered(p)'
  <2>1. CASE Kind[p] = "SUBSCRIPTION"
    <3>1. \E r \in Req : <<r, p>> \in granted'
      BY <1>1, <2>1 DEF Delivered
    <3>2. \E j \in Req : subs'[j] # NoSub /\ subs'[j].user = Owner[p]
      BY <1>1, <2>1 DEF Delivered
    <3> QED
      BY <2>1, <3>1, <3>2 DEF Delivered
  <2>2. CASE Kind[p] # "SUBSCRIPTION"
    BY <1>1, <2>2 DEF Delivered
  <2> QED
    BY <2>1, <2>2
<1> QED
  BY <1>1 DEF Grows

\* A subscription is made or extended, and the payment becomes what the
\* webhook said, in one commit with the grant.
LEMMA WebhookCommits ==
  ASSUME IInv, NEW r \in Req, WebhookCommit(r)
  PROVE  IInv'
<1> USE DEF IInv
<1>1. /\ pc[r] = "ready" /\ req[r].op = "webhook" /\ UNCHANGED <<now, refunds, work>>
      /\ pc' = [pc EXCEPT ![r] = "committed"] /\ payment' = PaymentAfter(r)
  BY DEF WebhookCommit, Go
<1>2. PICK p \in Payment : p = req[r].pay
  BY <1>1, NamesPayment DEF PayOp
<1> USE <1>2
<1>3. /\ payment' \in [Payment -> PaymentStatus \cup {"NONE"}]
      /\ \A q \in Payment : payment[q] = "NONE" <=> payment'[q] = "NONE"
      /\ \A q \in Payment : q # p => payment'[q] = payment[q]
      /\ staged[r] = "NONE" => payment' = payment
  BY <1>1, PaymentAfterFacts
<1>4. payment'[p] \in {"SUCCESS", "REFUNDED"} =>
        payment[p] \in {"SUCCESS", "REFUNDED"} \/ req[r].out = "SUCCESS"
  BY <1>1, <1>2 DEF PaymentAfter, RequestOK, StagedFits, TypeOK
<1>5. CASE req[r].out = "SUCCESS" /\ Kind[p] = "SUBSCRIPTION"
  <2>1. subs' = SubsAfter(r) /\ granted' = granted \cup {<<r, p>>} /\ UNCHANGED ver
    BY <1>5 DEF WebhookCommit
  <2>2. subs[r] = NoSub
    BY <1>1 DEF MadeByCommitted
  <2>3. \A i \in rows[r] : i \in Req /\ subs[i] \in SubRow /\ subs[i].user = Owner[p]
    <3>1. \A i \in rows[r] : i \in Req /\ subs[i] # NoSub /\ subs[i].user = Owner[p]
      BY <1>1, <1>2, <1>5 DEF RequestOK, RenewsOwn, LoadedExists, Delivers
    <3> QED
      BY <3>1 DEF TypeOK
  <2>4. Owner[p] \in User /\ until[r] \in Nat
    BY <1>2, CheckoutAssumption DEF TypeOK
  <2> granted' \subseteq Req \X Payment
    BY <2>1 DEF TypeOK
  <2>5. CASE rows[r] = {}
    <3>1. subs' = [subs EXCEPT ![r] = [user |-> Owner[p], status |-> "ACTIVE", expires |-> until[r]]]
      BY <2>1, <2>5 DEF SubsAfter
    <3>2. /\ subs' \in [Req -> SubRow \cup {NoSub}]
          /\ subs'[r] # NoSub /\ subs'[r].user = Owner[p]
          /\ \A i \in Req \ {r} : subs'[i] = subs[i]
      BY <3>1, <2>4 DEF TypeOK
    <3>3. TypeOK'
      BY <1>1, <1>3, <2>1, <3>2 DEF TypeOK, work
    <3>4. Grows
      BY <1>3, <2>1, <2>2, <3>2, GrowsBy
    <3>5. Delivered(p)'
      BY <1>5, <2>1, <3>2 DEF Delivered
    <3>6. PaidIsDelivered'
      BY <1>3, <3>4, <3>5 DEF PaidIsDelivered, Grows
    <3> QED
      BY <1>1, <1>3, <2>1, <3>2, <3>3, <3>4, <3>6, CommitStep
  <2>6. CASE rows[r] # {}
    <3>1. subs' = [i \in Req |-> IF i \in rows[r] THEN [subs[i] EXCEPT !.expires = until[r]] ELSE subs[i]]
      BY <2>1, <2>6 DEF SubsAfter
    <3>2. \A i \in rows[r] : i \in Req /\ subs'[i] \in SubRow /\ subs'[i] # NoSub /\ subs'[i].user = Owner[p]
      BY <3>1, <2>3, <2>4, RowChange
    <3>3. \A i \in Req \ rows[r] : subs'[i] = subs[i]
      BY <3>1
    <3>4. subs' \in [Req -> SubRow \cup {NoSub}]
      <4>1. \A i \in Req : subs'[i] \in SubRow \cup {NoSub}
        BY <3>2, <3>3 DEF TypeOK
      <4> QED
        BY <4>1, <3>1
    <3>5. TypeOK'
      BY <1>1, <1>3, <2>1, <3>4 DEF TypeOK, work
    <3>6. \A i \in Req : subs[i] # NoSub => subs'[i] # NoSub /\ subs'[i].user = subs[i].user
      BY <2>3, <3>2, <3>3
    <3>7. Grows
      BY <1>3, <2>1, <3>6, GrowsBy
    <3>8. Delivered(p)'
      BY <1>5, <2>1, <2>6, <3>2 DEF Delivered
    <3>9. PaidIsDelivered'
      BY <1>3, <3>7, <3>8 DEF PaidIsDelivered, Grows
    <3>10. \A i \in Req \ {r} : subs[i] = NoSub => subs'[i] = NoSub
      BY <2>3, <3>3, RowChange
    <3> QED
      BY <1>1, <1>3, <2>1, <3>5, <3>7, <3>9, <3>10, CommitStep
  <2> QED
    BY <2>5, <2>6
<1>6. CASE req[r].out = "SUCCESS" /\ Kind[p] = "JOB_VERIFICATION"
  <2>1. /\ ver' = [ver EXCEPT ![p].status = IF p \in rows[r] THEN "UNDER_REVIEW" ELSE @]
        /\ UNCHANGED <<subs, granted>>
    BY <1>6 DEF WebhookCommit
  <2>2. TypeOK'
    BY <1>1, <1>2, <1>3, <2>1 DEF TypeOK, work
  <2>3. p \in rows[r] => ver[p].status # "NONE"
    BY <1>2 DEF RequestOK, LoadedExists
  <2>4. \A q \in Payment : ver'[q].status = ver[q].status \/ (q \in rows[r] /\ q = p /\ ver'[q].status = "UNDER_REVIEW")
    BY <1>2, <2>1 DEF TypeOK
  <2>5. Grows
    BY <1>3, <2>1, <2>4, GrowsBy
  <2>6. Delivered(p)'
    <3>1. CASE p \in rows[r]
      BY <3>1, <1>2, <1>6, <2>1 DEF Delivered, TypeOK
    <3>2. CASE p \notin rows[r]
      BY <3>2, <1>1, <1>2, <1>6, <2>5 DEF RequestOK, SeenPaid, Delivers, Grows
    <3> QED
      BY <3>1, <3>2
  <2>7. PaidIsDelivered'
    BY <1>3, <2>5, <2>6 DEF PaidIsDelivered, Grows
  <2>8. \A q \in Payment : ver[q].status = "NONE" => ver'[q].status = "NONE"
    BY <2>3, <2>4
  <2> QED
    BY <1>1, <1>3, <2>1, <2>2, <2>5, <2>7, <2>8, CommitStep
<1>7. CASE req[r].out = "FAILED"
  <2>1. UNCHANGED <<subs, ver, granted>>
    BY <1>7 DEF WebhookCommit
  <2>2. TypeOK'
    BY <1>1, <1>2, <1>3, <2>1 DEF TypeOK, work
  <2>3. Grows
    BY <1>3, <2>1, GrowsBy
  <2>4. PaidIsDelivered'
    BY <1>3, <1>4, <1>7, <2>3 DEF PaidIsDelivered, Grows
  <2> QED
    BY <1>1, <1>3, <2>1, <2>2, <2>3, <2>4, CommitStep
<1> QED
  BY <1>5, <1>6, <1>7 DEF WebhookCommit

\* A refund is recorded, a review or an expiry is written.
LEMMA OtherCommits ==
  ASSUME IInv, NEW r \in Req, RefundCommit(r) \/ ReviewCommit(r) \/ ExpireCommit(r)
  PROVE  IInv'
<1> USE DEF IInv
<1>1. /\ pc[r] = "ready" /\ UNCHANGED <<now, granted, refunds, work>>
      /\ pc' = [pc EXCEPT ![r] = "committed"]
  BY DEF RefundCommit, ReviewCommit, ExpireCommit, Go
<1>2. RequestOK(r) /\ TypeOK
  OBVIOUS
<1>3. CASE RefundCommit(r)
  <2>1. req[r].op = "refund" /\ payment' = PaymentAfter(r) /\ UNCHANGED <<subs, ver>>
    BY <1>3 DEF RefundCommit
  <2>2. PICK p \in Payment : p = req[r].pay
    BY <2>1, NamesPayment DEF PayOp
  <2>3. /\ payment' \in [Payment -> PaymentStatus \cup {"NONE"}]
        /\ \A q \in Payment : payment[q] = "NONE" <=> payment'[q] = "NONE"
        /\ \A q \in Payment : q # p => payment'[q] = payment[q]
    BY <2>1, <2>2, PaymentAfterFacts
  <2>4. TypeOK'
    BY <1>1, <2>1, <2>3 DEF TypeOK, work
  <2>5. Grows
    BY <1>1, <2>1, <2>3, GrowsBy
  <2>6. Delivered(p)'
    BY <1>1, <1>2, <2>1, <2>2, <2>5 DEF RequestOK, RefundsDelivered, Grows
  <2>7. PaidIsDelivered'
    BY <2>3, <2>5, <2>6 DEF PaidIsDelivered, Grows
  <2> QED
    BY <1>1, <2>1, <2>3, <2>4, <2>5, <2>7, CommitStep
<1>4. CASE ReviewCommit(r)
  <2>1. req[r].op = "review" /\ UNCHANGED <<payment, subs>>
    BY <1>4 DEF ReviewCommit
  <2>2. PICK p \in Payment : p = req[r].pay
    BY <2>1, NamesPayment DEF PayOp
  <2>3. staged[r] \in {"NONE", "VERIFIED", "REJECTED"}
    BY <1>2, <2>1 DEF RequestOK, StagedFits
  <2>4. until[r] \in Nat /\ ver[p] \in [status : VerStatus, expires : Nat]
    BY <1>2 DEF TypeOK
  <2>5. ver' = [ver EXCEPT ![p] =
                  [status  |-> IF staged[r] = "NONE" THEN ver[p].status ELSE staged[r],
                   expires |-> IF req[r].out = "VERIFIED" THEN until[r] ELSE ver[p].expires]]
    BY <1>4, <2>2 DEF ReviewCommit, TypeOK
  <2>6. /\ ver' \in [Payment -> [status : VerStatus, expires : Nat]]
        /\ \A q \in Payment : q # p => ver'[q] = ver[q]
        /\ ver'[p].status = ver[p].status \/ ver'[p].status \in Decision
    BY <2>3, <2>4, <2>5 DEF TypeOK
  <2>7. TypeOK'
    BY <1>1, <2>1, <2>6 DEF TypeOK, work
  <2>8. Grows
    BY <1>1, <2>1, <2>6, GrowsBy
  <2>9. PaidIsDelivered'
    BY <2>1, <2>8 DEF PaidIsDelivered, Grows
  <2>10. \A q \in Payment : ver[q].status = "NONE" => ver'[q].status = "NONE"
    BY <1>2, <2>1, <2>2, <2>6 DEF RequestOK, TargetExists
  <2> QED
    BY <1>1, <2>1, <2>7, <2>8, <2>9, <2>10, CommitStep
<1>5. CASE ExpireCommit(r)
  <2>1. /\ UNCHANGED payment
        /\ subs' = [i \in Req |-> IF i \in rows[r] THEN [subs[i] EXCEPT !.status = "EXPIRED"] ELSE subs[i]]
        /\ ver' = [p \in Payment |-> IF p \in rows[r] THEN [ver[p] EXCEPT !.status = "EXPIRED"] ELSE ver[p]]
    BY <1>5 DEF ExpireCommit
  <2>2. \A i \in rows[r] : i \in Req => subs[i] \in SubRow
    BY <1>2 DEF RequestOK, LoadedExists, TypeOK
  <2>3. \A i \in rows[r] : i \in Payment => ver[i].status # "NONE"
    BY <1>2 DEF RequestOK, LoadedExists
  <2>4. \A i \in Req :
           \/ subs'[i] = subs[i]
           \/ subs[i] \in SubRow /\ subs'[i] \in SubRow /\ subs'[i] # NoSub /\ subs'[i].user = subs[i].user
    BY <2>1, <2>2, RowChange
  <2>5. \A p \in Payment :
           \/ ver'[p] = ver[p]
           \/ /\ ver'[p] \in [status : VerStatus, expires : Nat]
              /\ ver'[p].status = "EXPIRED" /\ ver[p].status # "NONE"
    BY <2>1, <2>3, <1>2 DEF TypeOK
  <2>6. subs' \in [Req -> SubRow \cup {NoSub}] /\ ver' \in [Payment -> [status : VerStatus, expires : Nat]]
    <3>1. \A i \in Req : subs'[i] \in SubRow \cup {NoSub}
      BY <2>4 DEF TypeOK
    <3>2. \A p \in Payment : ver'[p] \in [status : VerStatus, expires : Nat]
      BY <2>5 DEF TypeOK
    <3> QED
      BY <3>1, <3>2, <2>1
  <2>7. TypeOK'
    BY <1>1, <2>1, <2>6 DEF TypeOK, work
  <2>8. Grows
    <3>1. \A i \in Req : subs[i] # NoSub => subs'[i] # NoSub /\ subs'[i].user = subs[i].user
      BY <2>4
    <3> QED
      BY <1>1, <2>1, <2>5, <3>1, GrowsBy
  <2>9. PaidIsDelivered'
    BY <2>1, <2>8 DEF PaidIsDelivered, Grows
  <2>10. \A i \in Req \ {r} : subs[i] = NoSub => subs'[i] = NoSub
    BY <2>4, RowChange
  <2> QED
    BY <1>1, <2>1, <2>5, <2>7, <2>8, <2>9, <2>10, CommitStep
<1> QED
  BY <1>3, <1>4, <1>5

-----------------------------------------------------------------------------
\* A checkout sets up a payment nobody has heard of.
LEMMA CheckoutStep ==
  ASSUME IInv, NEW p \in Payment, Checkout(p)
  PROVE  IInv'
<1> USE DEF IInv, Checkout, work
<1>1. payment[p] = "NONE" /\ payment' = [payment EXCEPT ![p] = "PENDING"]
      /\ UNCHANGED <<subs, granted, refunds, pc, req, staged, rows, until, now>>
  OBVIOUS
<1>2. /\ \A q \in Payment : q # p => payment'[q] = payment[q] /\ ver'[q] = ver[q]
      /\ payment'[p] = "PENDING"
      /\ ver'[p].status = IF Kind[p] = "JOB_VERIFICATION" THEN "PENDING_PAYMENT" ELSE "NONE"
  BY DEF TypeOK
<1>3. TypeOK'
  BY DEF TypeOK
<1>4. Grows
  <2>1. \A q \in Payment : Delivered(q) => Delivered(q)'
    <3> SUFFICES ASSUME NEW q \in Payment, Delivered(q) PROVE Delivered(q)'
      OBVIOUS
    <3>1. CASE q # p \/ Kind[q] = "SUBSCRIPTION"
      BY <3>1, <1>1, <1>2 DEF Delivered
    <3>2. CASE q = p /\ Kind[q] = "JOB_VERIFICATION"
      BY <3>2, <1>1 DEF Delivered, VerificationExists
    <3> QED
      BY <3>1, <3>2 DEF Delivered
  <2>2. \A q \in Payment : ver[q].status # "NONE" => ver'[q].status # "NONE"
    BY <1>1, <1>2 DEF VerificationExists
  <2> QED
    BY <1>1, <1>2, <2>1, <2>2 DEF Grows
<1>5. \A o \in Req : RequestOK(o)'
  BY <1>1, <1>4, RestsOK DEF Rests
<1>6. MadeByCommitted'
  BY <1>1 DEF MadeByCommitted
<1>7. VerificationExists'
  BY <1>2 DEF VerificationExists
<1>8. PaidIsDelivered'
  BY <1>2, <1>4 DEF PaidIsDelivered, Grows
<1>9. RefundedWasDelivered'
  BY <1>1, <1>4 DEF RefundedWasDelivered, Grows
<1> QED
  BY <1>3, <1>5, <1>6, <1>7, <1>8, <1>9

\* The passing of a day, or nothing at all.
LEMMA TickStep ==
  ASSUME IInv, Tick \/ UNCHANGED vars
  PROVE  IInv'
<1> USE DEF IInv, work
<1>1. UNCHANGED <<tables, refunds, pc, work>>
  BY DEF Tick, vars, tables
<1>2. Grows
  BY <1>1, SameGrows
<1>3. TypeOK'
  BY <1>1 DEF TypeOK, Tick, vars, tables
<1>4. \A o \in Req : RequestOK(o)'
  BY <1>1, <1>2, RestsOK DEF Rests
<1>5. MadeByCommitted' /\ VerificationExists'
  BY <1>1 DEF MadeByCommitted, VerificationExists, tables
<1>6. PaidIsDelivered' /\ RefundedWasDelivered'
  BY <1>1, <1>2 DEF PaidIsDelivered, RefundedWasDelivered, Grows, tables
<1> QED
  BY <1>3, <1>4, <1>5, <1>6

LEMMA InvStep == IInv /\ [Next]_vars => IInv'
<1> SUFFICES ASSUME IInv, [Next]_vars PROVE IInv'
  OBVIOUS
<1>1. ASSUME NEW r \in Req, Continue(r) PROVE IInv'
  BY <1>1, OpenSteps, WebhookCommits, OtherCommits DEF Continue
<1>2. ASSUME NEW r \in Req, Fail(r) PROVE IInv'
  BY <1>2, OpenSteps
<1> QED
  BY <1>1, <1>2, ArriveStep, CheckoutStep, TickStep DEF Next

-----------------------------------------------------------------------------
\* The invariant holds in every state Billing can reach.
THEOREM Invariant == Spec => []IInv
  BY InvInit, InvStep, PTL DEF Spec

\* Every table and request keeps its type.
THEOREM TypeCorrect == Spec => []TypeOK
<1>1. IInv => TypeOK
  BY DEF IInv
<1> QED
  BY <1>1, Invariant, PTL

\* Whatever webhooks, refunds, reviews, expiries and failures overlap, a
\* payment that counts as successful or refunded has been delivered.
THEOREM PaymentsDeliver == Spec => []PaidIsDelivered
<1>1. IInv => PaidIsDelivered
  BY DEF IInv
<1> QED
  BY <1>1, Invariant, PTL

\* The provider is never asked to pay back what was not delivered.
THEOREM RefundsFollowDelivery == Spec => []RefundedWasDelivered
<1>1. IInv => RefundedWasDelivered
  BY DEF IInv
<1> QED
  BY <1>1, Invariant, PTL

-----------------------------------------------------------------------------
(***************************************************************************)
(* Who moves, and the load.                                                *)
(***************************************************************************)
Step(r) == Arrive(r) \/ Continue(r) \/ Fail(r)

Background == Tick \/ \E p \in Payment : Checkout(p)

LEMMA NextIsStep == [Next]_vars => UNCHANGED vars \/ Background \/ \E r \in Req : Step(r)
  BY DEF Next, Step, Background

\* The step of a request changes no other, and answers are final.
LEMMA OneMoves ==
  ASSUME TypeOK, NEW r \in Req, Step(r)
  PROVE  /\ \A o \in Req \ {r} : Rests(o) /\ until'[o] = until[o]
         /\ pc[r] \in Open \/ (pc[r] = "new" /\ Cardinality(InWork) < MaxInFlight)
         /\ pc'[r] # "new" /\ now' = now
<1> USE DEF TypeOK, tables, work, Go, Begin, Rests
<1>1. CASE Arrive(r)
  <2>1. pc[r] = "new" /\ Cardinality(InWork) < MaxInFlight /\ now' = now
    BY <1>1 DEF Arrive, WebhookRead, RefundRead, ReviewRead, ExpireRead, Admit, InWork
  <2>2. ASSUME NEW op \in WebhookOps, NEW p \in Payment, NEW o \in Outcome, WebhookRead(r, op, p, o)
        PROVE  (\A q \in Req \ {r} : Rests(q) /\ until'[q] = until[q]) /\ pc'[r] # "new"
    BY <2>2 DEF WebhookRead
  <2>3. ASSUME NEW p \in Payment, RefundRead(r, p)
        PROVE  (\A q \in Req \ {r} : Rests(q) /\ until'[q] = until[q]) /\ pc'[r] # "new"
    BY <2>3 DEF RefundRead
  <2>4. ASSUME NEW p \in Payment, NEW d \in Decision, ReviewRead(r, p, d)
        PROVE  (\A q \in Req \ {r} : Rests(q) /\ until'[q] = until[q]) /\ pc'[r] # "new"
    BY <2>4 DEF ReviewRead
  <2>5. ASSUME NEW op \in JobOps, ExpireRead(r, op)
        PROVE  (\A q \in Req \ {r} : Rests(q) /\ until'[q] = until[q]) /\ pc'[r] # "new"
    BY <2>5 DEF ExpireRead
  <2> QED
    BY <1>1, <2>1, <2>2, <2>3, <2>4, <2>5 DEF Arrive
<1>2. CASE Continue(r)
  <2>1. CASE MarkPayment(r) \/ Flush(r) \/ DeferredEnd(r) \/ ProviderRefunds(r) \/ ProviderDeclines(r)
    BY <2>1 DEF MarkPayment, Flush, DeferredEnd, ProviderRefunds, ProviderDeclines
  <2>2. CASE Activate(r) \/ UnderReview(r)
    BY <2>2 DEF Activate, UnderReview
  <2>3. CASE WebhookCommit(r) \/ RefundCommit(r) \/ ReviewCommit(r) \/ ExpireCommit(r)
    BY <2>3 DEF WebhookCommit, RefundCommit, ReviewCommit, ExpireCommit
  <2> QED
    BY <1>2, <2>1, <2>2, <2>3 DEF Continue
<1>3. CASE Fail(r)
  BY <1>3 DEF Fail
<1> QED
  BY <1>1, <1>2, <1>3 DEF Step

LEMMA BackgroundMoves == Background \/ UNCHANGED vars => UNCHANGED <<pc, work, subs, granted, refunds>>
  BY DEF Background, Tick, Checkout, vars, tables, work

LEMMA LoadInit == Init => LoadBounded
<1> SUFFICES ASSUME Init PROVE LoadBounded
  OBVIOUS
<1>1. InWork = {}
  BY DEF Init, InWork
<1> QED
  BY <1>1, FS_EmptySet, BillingLoadAssumption DEF LoadBounded

LEMMA LoadStep ==
  ASSUME TypeOK, LoadBounded, [Next]_vars
  PROVE  LoadBounded'
<1> USE DEF LoadBounded
<1>1. CASE Background \/ UNCHANGED vars
  BY <1>1, BackgroundMoves DEF InWork
<1>2. ASSUME NEW r \in Req, Step(r)
      PROVE  LoadBounded'
  <2>1. \A o \in Req \ {r} : pc'[o] = pc[o]
    BY <1>2, OneMoves DEF Rests
  <2>2. CASE r \in InWork \/ r \notin InWork'
    <3>1. InWork' \subseteq InWork
      BY <2>1, <2>2 DEF InWork
    <3>2. IsFiniteSet(InWork') /\ Cardinality(InWork') <= Cardinality(InWork)
      BY <3>1, FS_Subset
    <3>3. Cardinality(InWork) \in Nat /\ Cardinality(InWork') \in Nat
      BY <3>2, FS_CardinalityType
    <3> QED
      BY <3>2, <3>3, BillingLoadAssumption
  <2>3. CASE r \notin InWork /\ r \in InWork'
    <3>1. InWork' = InWork \cup {r}
      BY <2>1, <2>3 DEF InWork
    <3>2. IsFiniteSet(InWork') /\ Cardinality(InWork') = Cardinality(InWork) + 1
      BY <2>3, <3>1, FS_AddElement
    <3>3. Cardinality(InWork) < MaxInFlight
      BY <1>2, <2>3, OneMoves DEF InWork
    <3>4. Cardinality(InWork) \in Nat
      BY FS_CardinalityType
    <3> QED
      BY <3>2, <3>3, <3>4, BillingLoadAssumption
  <2> QED
    BY <2>2, <2>3
<1> QED
  BY <1>1, <1>2, NextIsStep

\* The servers never work on more requests and jobs than they have workers.
THEOREM LoadLimit == Spec => []LoadBounded
<1>1. TypeOK /\ LoadBounded /\ [Next]_vars => LoadBounded'
  BY LoadStep
<1> QED
  BY <1>1, LoadInit, TypeCorrect, PTL DEF Spec

\* With one worker there is at most one open request.
LEMMA OneWorker ==
  ASSUME LoadBounded, MaxInFlight = 1
  PROVE  OneOpen /\ (Cardinality(InWork) < MaxInFlight => InWork = {})
<1>1. Cardinality(InWork) \in Nat /\ Cardinality(InWork) <= 1
  BY FS_CardinalityType DEF LoadBounded
<1>2. CASE Cardinality(InWork) = 0
  <2>1. InWork = {}
    BY <1>2, FS_EmptySet DEF LoadBounded
  <2> QED
    BY <2>1 DEF OneOpen
<1>3. CASE Cardinality(InWork) = 1
  <2>1. PICK x : InWork = {x}
    BY <1>3, FS_Singleton DEF LoadBounded
  <2> QED
    BY <1>3, <2>1 DEF OneOpen
<1> QED
  BY <1>1, <1>2, <1>3

\* So whoever moves is alone.
LEMMA Alone ==
  ASSUME TypeOK, LoadBounded, MaxInFlight = 1, NEW r \in Req, Step(r)
  PROVE  InWork \subseteq {r} /\ \A o \in InWork' : o = r
<1>1. \A o \in Req \ {r} : pc'[o] = pc[o]
  BY OneMoves DEF Rests
<1>2. InWork \subseteq {r}
  BY OneMoves, OneWorker DEF OneOpen, InWork
<1> QED
  BY <1>1, <1>2 DEF InWork

-----------------------------------------------------------------------------
(***************************************************************************)
(* What an open request has seen stands until it is answered.              *)
(***************************************************************************)

\* Time passes and others check out.
LEMMA BackgroundSeen ==
  ASSUME IInv, SeenStands, Background \/ UNCHANGED vars
  PROVE  SeenStands'
<1> USE DEF IInv, work
<1>1. UNCHANGED <<pc, req, staged, rows, until, subs>>
  BY BackgroundMoves
<1> SUFFICES ASSUME NEW r \in InWork
             PROVE  /\ req[r].op \in WebhookOps => StillNews(r)'
                    /\ req[r].op = "refund" => StillRefundable(r)'
                    /\ (Delivers(r) /\ Kind[req[r].pay] = "SUBSCRIPTION") => StillRenews(r)'
                    /\ (Delivers(r) /\ Kind[req[r].pay] = "JOB_VERIFICATION") => StillUnpaid(r)'
  BY <1>1 DEF SeenStands, InWork, Delivers
<1>2. r \in Req
  BY DEF InWork
<1>3. ASSUME req[r].op \in WebhookOps \cup {"refund"}
      PROVE  payment'[req[r].pay] = payment[req[r].pay] /\ ver'[req[r].pay] = ver[req[r].pay]
  <2>1. req[r].pay \in Payment /\ payment[req[r].pay] # "NONE"
    BY <1>2, <1>3, NamesPayment DEF PayOp, RequestOK, TargetExists
  <2> QED
    BY <2>1 DEF Background, Tick, Checkout, vars, tables, TypeOK
<1>4. (\A u : Active(u)' = Active(u))
  BY <1>1 DEF Active
<1>5. req[r].op \in WebhookOps => StillNews(r)'
  BY <1>1, <1>3 DEF SeenStands, StillNews, Terminal
<1>6. req[r].op = "refund" => StillRefundable(r)'
  BY <1>1, <1>3 DEF SeenStands, StillRefundable, Refundable
<1>7. Delivers(r) /\ Kind[req[r].pay] = "SUBSCRIPTION" => StillRenews(r)'
  BY <1>1, <1>4 DEF SeenStands, StillRenews
<1>8. Delivers(r) /\ Kind[req[r].pay] = "JOB_VERIFICATION" => StillUnpaid(r)'
  BY <1>1, <1>3 DEF SeenStands, StillUnpaid, Delivers
<1> QED
  BY <1>5, <1>6, <1>7, <1>8

\* What r is about to do rests on tables that have not changed.
Stands(r) ==
  /\ req[r].op \in WebhookOps => StillNews(r)
  /\ req[r].op = "refund" => StillRefundable(r)
  /\ Delivers(r) /\ Kind[req[r].pay] = "SUBSCRIPTION" => StillRenews(r)
  /\ Delivers(r) /\ Kind[req[r].pay] = "JOB_VERIFICATION" => StillUnpaid(r)

LEMMA ArriveStands ==
  ASSUME IInv, NEW r \in Req, Arrive(r), pc'[r] \in Open
  PROVE  Stands(r)'
<1> USE DEF IInv, TypeOK, Begin, Go, Stands, Delivers, tables
<1>1. ASSUME NEW op \in WebhookOps, NEW p \in Payment, NEW o \in Outcome, WebhookRead(r, op, p, o)
      PROVE  Stands(r)'
  BY <1>1 DEF WebhookRead, StillNews, Terminal
<1>2. ASSUME NEW p \in Payment, RefundRead(r, p)
      PROVE  Stands(r)'
  BY <1>2 DEF RefundRead, StillRefundable, Refundable
<1>3. ASSUME NEW p \in Payment, NEW d \in Decision, ReviewRead(r, p, d)
      PROVE  Stands(r)'
  BY <1>3 DEF ReviewRead
<1>4. ASSUME NEW op \in JobOps, ExpireRead(r, op)
      PROVE  Stands(r)'
  BY <1>4 DEF ExpireRead
<1> QED
  BY <1>1, <1>2, <1>3, <1>4 DEF Arrive

LEMMA ContinueStands ==
  ASSUME IInv, NEW r \in Req, pc[r] \in Open => Stands(r), Continue(r) \/ Fail(r), pc'[r] \in Open
  PROVE  Stands(r)'
<1> USE DEF IInv, Go, work
<1>1. /\ pc[r] \in Open /\ pc' = [pc EXCEPT ![r] = pc'[r]] /\ UNCHANGED <<tables, now, req, staged>>
      /\ MarkPayment(r) \/ Activate(r) \/ UnderReview(r) \/ Flush(r) \/ ProviderRefunds(r)
  BY DEF Continue, MarkPayment, Activate, UnderReview, Flush, DeferredEnd, ProviderRefunds,
         ProviderDeclines, WebhookCommit, RefundCommit, ReviewCommit, ExpireCommit, Fail, TypeOK
<1>2. Stands(r) /\ RequestOK(r) /\ TypeOK
  BY <1>1
<1>3. /\ req[r].op \in WebhookOps => StillNews(r)'
      /\ req[r].op = "refund" => StillRefundable(r)'
  BY <1>1, <1>2 DEF Stands, StillNews, StillRefundable, Terminal, Refundable, tables
<1>4. \A u : Active(u)' = Active(u)
  BY <1>1 DEF Active, tables
<1>5. CASE MarkPayment(r) \/ ProviderRefunds(r)
  <2>1. ~Delivers(r)'
    BY <1>1, <1>2, <1>5 DEF MarkPayment, ProviderRefunds, Delivers, TypeOK
  <2> QED
    BY <1>1, <1>3, <2>1 DEF Stands
<1>6. CASE Flush(r)
  <2>1. Delivers(r)' <=> Delivers(r)
    BY <1>1, <1>6 DEF Flush, Delivers, TypeOK
  <2>2. UNCHANGED <<subs, ver, rows, until>>
    BY <1>6 DEF Flush, tables
  <2>3. (StillRenews(r)' <=> StillRenews(r)) /\ (StillUnpaid(r)' <=> StillUnpaid(r))
    BY <1>1, <1>4, <2>2 DEF StillRenews, StillUnpaid
  <2> QED
    BY <1>1, <1>2, <1>3, <2>1, <2>3 DEF Stands
<1>7. CASE Activate(r)
  <2>1. req[r].op \in WebhookOps /\ req[r].pay \in Payment /\ Kind[req[r].pay] = "SUBSCRIPTION"
    BY <1>2, <1>7, NamesPayment DEF Activate, RequestOK, PathOK, PayOp
  <2>2. Days[req[r].pay] \in Nat /\ now \in Nat
    BY <1>2, <2>1, CheckoutAssumption DEF TypeOK
  <2>3. StillRenews(r)'
    <3>1. CASE Active(Owner[req[r].pay]) = {} /\ rows' = [rows EXCEPT ![r] = {}]
               /\ until' = [until EXCEPT ![r] = now + Days[req[r].pay]]
      <4>1. rows'[r] = {} /\ until'[r] = now + Days[req[r].pay]
        BY <1>2, <3>1 DEF TypeOK
      <4>2. until'[r] >= Days[req[r].pay]
        BY <4>1, <2>2
      <4> QED
        BY <1>1, <1>4, <3>1, <4>1, <4>2 DEF StillRenews
    <3>2. ASSUME NEW i \in Active(Owner[req[r].pay]), rows' = [rows EXCEPT ![r] = {i}],
                 until' = [until EXCEPT ![r] = StartsAt(i) + Days[req[r].pay]]
          PROVE  StillRenews(r)'
      <4>1. rows'[r] = {i} /\ until'[r] = StartsAt(i) + Days[req[r].pay]
        BY <1>2, <3>2 DEF TypeOK
      <4>2. subs[i].expires \in Nat /\ StartsAt(i) \in Nat /\ StartsAt(i) >= subs[i].expires
        BY <1>2, <2>2 DEF Active, TypeOK, StartsAt
      <4>3. until'[r] >= subs'[i].expires + Days[req[r].pay]
        BY <1>1, <2>2, <4>1, <4>2 DEF tables
      <4> QED
        BY <1>1, <1>4, <4>1, <4>3 DEF StillRenews
    <3> QED
      BY <1>7, <3>1, <3>2 DEF Activate
  <2> QED
    BY <1>1, <1>3, <2>1, <2>3 DEF Stands
<1>8. CASE UnderReview(r)
  <2>1. rows'[r] = IF ver[req[r].pay].status = "PENDING_PAYMENT" THEN {req[r].pay} ELSE {}
    BY <1>2, <1>8 DEF UnderReview, TypeOK
  <2>2. StillUnpaid(r)' /\ Kind[req[r].pay] = "JOB_VERIFICATION"
    BY <1>1, <1>8, <2>1 DEF StillUnpaid, UnderReview, tables
  <2> QED
    BY <1>1, <1>3, <2>2 DEF Stands
<1> QED
  BY <1>1, <1>5, <1>6, <1>7, <1>8

LEMMA SeenStep ==
  ASSUME IInv, SeenStands, NEW r \in Req, Step(r), \A o \in InWork' : o = r
  PROVE  SeenStands'
<1>1. pc[r] \in Open => Stands(r)
  BY DEF SeenStands, InWork, Stands
<1>2. pc'[r] \in Open => Stands(r)'
  BY <1>1, ArriveStands, ContinueStands DEF Step
<1> QED
  BY <1>2 DEF SeenStands, InWork, Stands
-----------------------------------------------------------------------------
(***************************************************************************)
(* What the steps do to the tables when requests are served one at a time. *)
(***************************************************************************)
LEMMA WhoWrites ==
  ASSUME NEW r \in Req, Step(r)
  PROVE  \/ UNCHANGED tables
         \/ WebhookCommit(r) \/ RefundCommit(r) \/ ReviewCommit(r) \/ ExpireCommit(r)
<1> USE DEF work
<1>1. Arrive(r) => UNCHANGED tables
  BY DEF Arrive, WebhookRead, RefundRead, ReviewRead, ExpireRead
<1>2. CASE Continue(r)
  BY <1>2 DEF Continue, MarkPayment, Activate, UnderReview, Flush, DeferredEnd, ProviderRefunds,
              ProviderDeclines
<1> QED
  BY <1>1, <1>2 DEF Step, Fail

\* A webhook that commits writes a payment that is not terminal.
LEMMA WebhookWrites ==
  ASSUME IInv, SeenStands, NEW r \in Req, WebhookCommit(r)
  PROVE  /\ req[r].pay \in Payment /\ Stands(r)
         /\ \A q \in Payment : Terminal(payment[q]) => q # req[r].pay
         /\ \A q \in Payment : q # req[r].pay => payment'[q] = payment[q]
         /\ req[r].out = "SUCCESS" => Terminal(payment'[req[r].pay])
<1> USE DEF IInv
<1>1. pc[r] = "ready" /\ req[r].op = "webhook" /\ payment' = PaymentAfter(r)
  BY DEF WebhookCommit
<1>2. req[r].pay \in Payment
  BY <1>1, NamesPayment DEF PayOp
<1>3. Stands(r) /\ StillNews(r)
  BY <1>1 DEF SeenStands, InWork, Stands
<1>4. \A q \in Payment : q # req[r].pay => payment'[q] = payment[q]
  BY <1>1, PaymentAfterFacts
<1>5. req[r].out = "SUCCESS" => staged[r] = "SUCCESS"
  BY <1>3 DEF StillNews, Terminal
<1>6. req[r].out = "SUCCESS" => Terminal(payment'[req[r].pay])
  BY <1>1, <1>2, <1>5 DEF PaymentAfter, Terminal, TypeOK
<1> QED
  BY <1>2, <1>3, <1>4, <1>6 DEF StillNews

\* A refund that commits turns a success into a refund.
LEMMA RefundWrites ==
  ASSUME IInv, SeenStands, NEW r \in Req, RefundCommit(r)
  PROVE  /\ req[r].pay \in Payment /\ payment[req[r].pay] = "SUCCESS"
         /\ payment' = [payment EXCEPT ![req[r].pay] = "REFUNDED"]
<1> USE DEF IInv
<1>1. pc[r] = "ready" /\ req[r].op = "refund" /\ payment' = PaymentAfter(r)
  BY DEF RefundCommit
<1>2. req[r].pay \in Payment
  BY <1>1, NamesPayment DEF PayOp
<1>3. StillRefundable(r)
  BY <1>1 DEF SeenStands, InWork
<1> QED
  BY <1>1, <1>2, <1>3 DEF PaymentAfter, StillRefundable, Refundable

\* A terminal payment stays terminal.
LEMMA TerminalStep ==
  ASSUME IInv, SeenStands, [Next]_vars, NEW p \in Payment
  PROVE  /\ payment[p] = "SUCCESS" => payment'[p] \in {"SUCCESS", "REFUNDED"}
         /\ payment[p] = "REFUNDED" => payment'[p] = "REFUNDED"
<1> USE DEF Terminal
<1>1. CASE Background \/ UNCHANGED vars
  BY <1>1 DEF Background, Tick, Checkout, vars, tables, IInv, TypeOK
<1>2. ASSUME NEW r \in Req, Step(r)
      PROVE  /\ payment[p] = "SUCCESS" => payment'[p] \in {"SUCCESS", "REFUNDED"}
             /\ payment[p] = "REFUNDED" => payment'[p] = "REFUNDED"
  <2>1. CASE UNCHANGED payment
    BY <2>1
  <2>2. CASE WebhookCommit(r)
    BY <2>2, WebhookWrites
  <2>3. CASE RefundCommit(r)
    BY <2>3, RefundWrites DEF IInv, TypeOK
  <2> QED
    BY <1>2, <2>1, <2>2, <2>3, WhoWrites DEF tables, ReviewCommit, ExpireCommit
<1> QED
  BY <1>1, <1>2, NextIsStep

\* No payment is granted again.
LEMMA GrantStep ==
  ASSUME IInv, SeenStands, GrantedIsTerminal, GrantedOnce, [Next]_vars
  PROVE  GrantedIsTerminal' /\ GrantedOnce'
<1> USE DEF IInv
<1>1. \A g \in granted : g[2] \in Payment /\ Terminal(payment'[g[2]])
  BY TerminalStep DEF GrantedIsTerminal, Terminal, TypeOK
<1>2. CASE granted' = granted
  BY <1>1, <1>2 DEF GrantedIsTerminal, GrantedOnce, Terminal
<1>3. ASSUME NEW r \in Req, WebhookCommit(r), granted' # granted
      PROVE  GrantedIsTerminal' /\ GrantedOnce'
  <2>1. req[r].out = "SUCCESS" /\ granted' = granted \cup {<<r, req[r].pay>>}
    BY <1>3 DEF WebhookCommit
  <2>2. Terminal(payment'[req[r].pay]) /\ \A g \in granted : g[2] # req[r].pay
    BY <1>3, <2>1, <1>1, WebhookWrites DEF GrantedIsTerminal
  <2>3. GrantedIsTerminal'
    BY <1>1, <2>1, <2>2 DEF GrantedIsTerminal, Terminal
  <2>4. GrantedOnce'
    BY <2>1, <2>2 DEF GrantedOnce
  <2> QED
    BY <2>3, <2>4
<1>4. granted' = granted \/ \E r \in Req : WebhookCommit(r)
  BY NextIsStep, BackgroundMoves, WhoWrites DEF tables, RefundCommit, ReviewCommit, ExpireCommit
<1> QED
  BY <1>2, <1>3, <1>4

\* The rows a subscription payment leaves: a new one where none was running,
\* or the running one with a later expiry.
LEMMA SubscriptionWrites ==
  ASSUME IInv, SeenStands, NEW r \in Req, WebhookCommit(r),
         req[r].out = "SUCCESS", Kind[req[r].pay] = "SUBSCRIPTION"
  PROVE  LET p == req[r].pay
             u == Owner[p]
         IN
         \/ /\ Active(u) = {} /\ until[r] >= Days[p] /\ subs[r] = NoSub
            /\ subs' = [subs EXCEPT ![r] = [user |-> u, status |-> "ACTIVE", expires |-> until[r]]]
         \/ \E i \in Active(u) :
              /\ until[r] >= subs[i].expires + Days[p]
              /\ subs' = [subs EXCEPT ![i].expires = until[r]]
<1> USE DEF IInv
<1>1. Stands(r) /\ Delivers(r) /\ subs' = SubsAfter(r) /\ subs[r] = NoSub
  <2>1. Delivers(r) /\ subs' = SubsAfter(r)
    BY DEF WebhookCommit, Delivers
  <2>2. subs[r] = NoSub
    BY DEF WebhookCommit, MadeByCommitted
  <2> QED
    BY <2>1, <2>2, WebhookWrites
<1>2. StillRenews(r)
  BY <1>1 DEF Stands
<1>3. CASE rows[r] = {}
  BY <1>1, <1>2, <1>3 DEF StillRenews, SubsAfter
<1>4. ASSUME NEW i \in Active(Owner[req[r].pay]), rows[r] = {i},
             until[r] >= subs[i].expires + Days[req[r].pay]
      PROVE  subs' = [subs EXCEPT ![i].expires = until[r]]
  <2>1. subs' = [j \in Req |-> IF j \in rows[r] THEN [subs[j] EXCEPT !.expires = until[r]] ELSE subs[j]]
    BY <1>1, <1>4 DEF SubsAfter
  <2> QED
    BY <1>4, <2>1 DEF TypeOK
<1> QED
  BY <1>1, <1>2, <1>3, <1>4 DEF StillRenews

\* Whose a running subscription is.
LEMMA ActiveFacts ==
  ASSUME TypeOK, NEW i \in Req, subs[i].status = "ACTIVE"
  PROVE  subs[i] \in SubRow /\ i \in Active(subs[i].user)
  BY DEF TypeOK, Active

\* A user never gets a second running subscription.
LEMMA OneActiveStep ==
  ASSUME IInv, TypeOK', SeenStands, OneActiveSubscription, [Next]_vars
  PROVE  OneActiveSubscription'
<1> USE DEF IInv
<1>1. CASE UNCHANGED subs
  BY <1>1 DEF OneActiveSubscription
<1>2. ASSUME NEW r \in Req, WebhookCommit(r), req[r].out = "SUCCESS", Kind[req[r].pay] = "SUBSCRIPTION"
      PROVE  OneActiveSubscription'
  <2> DEFINE u == Owner[req[r].pay]
  <2>1. CASE Active(u) = {} /\ subs' = [subs EXCEPT ![r] = [user |-> u, status |-> "ACTIVE", expires |-> until[r]]]
    <3>1. \A i \in Req \ {r} : subs'[i] = subs[i]
      BY <2>1 DEF TypeOK
    <3>2. subs'[r].user = u
      BY <2>1 DEF TypeOK
    <3>3. \A i \in Req \ {r} : subs[i].status = "ACTIVE" => subs[i].user # u
      BY <2>1, ActiveFacts
    <3> QED
      BY <3>1, <3>2, <3>3 DEF OneActiveSubscription
  <2>2. ASSUME NEW i \in Active(u), subs' = [subs EXCEPT ![i].expires = until[r]]
        PROVE  OneActiveSubscription'
    <3>1. i \in Req /\ subs[i] \in SubRow
      BY DEF Active, TypeOK
    <3>2. \A j \in Req : subs'[j].status = subs[j].status /\ (subs[j] # NoSub => subs'[j].user = subs[j].user)
      BY <2>2, <3>1 DEF TypeOK
    <3> QED
      BY <3>2 DEF OneActiveSubscription, TypeOK
  <2> QED
    BY <1>2, <2>1, <2>2, SubscriptionWrites
<1>3. ASSUME NEW r \in Req, ExpireCommit(r)
      PROVE  OneActiveSubscription'
  <2>1. subs' = [i \in Req |-> IF i \in rows[r] THEN [subs[i] EXCEPT !.status = "EXPIRED"] ELSE subs[i]]
    BY <1>3 DEF ExpireCommit
  <2>2. \A i \in rows[r] : i \in Req => subs[i] \in SubRow
    BY DEF RequestOK, LoadedExists, TypeOK
  <2>3. \A i \in Req : subs'[i].status = "ACTIVE" => subs'[i] = subs[i]
    BY <2>1, <2>2
  <2> QED
    BY <2>3 DEF OneActiveSubscription
<1>4. \/ UNCHANGED subs \/ \E r \in Req : ExpireCommit(r)
      \/ \E r \in Req : WebhookCommit(r) /\ req[r].out = "SUCCESS" /\ Kind[req[r].pay] = "SUBSCRIPTION"
  BY NextIsStep, BackgroundMoves, WhoWrites DEF tables, RefundCommit, ReviewCommit, WebhookCommit
<1> QED
  BY <1>1, <1>2, <1>3, <1>4

-----------------------------------------------------------------------------
(***************************************************************************)
(* Money that goes back: a refund is recorded, under way or failed.        *)
(***************************************************************************)

\* The only step that fails a request is Fail, and a failed one stays so.
LEMMA FailedStep ==
  ASSUME TypeOK, NEW r \in Req, Step(r), NEW p
  PROVE  /\ FailedRefunds(p)' = FailedRefunds(p) \/
              (r \notin FailedRefunds(p) /\ FailedRefunds(p)' = FailedRefunds(p) \cup {r})
         /\ Fail(r) /\ req[r].op = "refund" /\ req[r].pay = p =>
              r \notin FailedRefunds(p) /\ FailedRefunds(p)' = FailedRefunds(p) \cup {r}
<1>1. \A o \in Req \ {r} : pc'[o] = pc[o] /\ req'[o] = req[o]
  BY OneMoves DEF Rests
<1>2. r \notin FailedRefunds(p)
  BY OneMoves DEF FailedRefunds
<1>3. \A o \in Req \ {r} : o \in FailedRefunds(p)' <=> o \in FailedRefunds(p)
  BY <1>1 DEF FailedRefunds
<1>4. FailedRefunds(p) \subseteq Req /\ FailedRefunds(p)' \subseteq Req
  BY DEF FailedRefunds
<1>5. Fail(r) /\ req[r].op = "refund" /\ req[r].pay = p => r \in FailedRefunds(p)'
  BY DEF Fail, FailedRefunds, Go, TypeOK, work
<1> QED
  BY <1>2, <1>3, <1>4, <1>5

\* Only the provider pays back.
LEMMA WhoRefunds ==
  ASSUME NEW r \in Req, Step(r), ~ProviderRefunds(r)
  PROVE  UNCHANGED refunds
<1>1. CASE Arrive(r)
  BY <1>1 DEF Arrive, WebhookRead, RefundRead, ReviewRead, ExpireRead
<1>2. CASE Continue(r)
  BY <1>2 DEF Continue, MarkPayment, Activate, UnderReview, Flush, DeferredEnd, ProviderDeclines,
              WebhookCommit, RefundCommit, ReviewCommit, ExpireCommit
<1> QED
  BY <1>1, <1>2 DEF Step, Fail

\* A refund that the provider has paid stays under way until it is recorded
\* or has failed.
LEMMA PaidBackStep ==
  ASSUME IInv, SeenStands, NEW r \in Req, Step(r), InWork \subseteq {r}, NEW p \in Payment,
         PaidBack(p), ~(Fail(r) /\ req[r].op = "refund" /\ req[r].pay = p)
  PROVE  PaidBack(p)'
<1> USE DEF IInv
<1>1. CASE payment[p] = "REFUNDED"
  <2>1. [Next]_vars
    BY DEF Step, Next
  <2> QED
    BY <1>1, <2>1, TerminalStep DEF PaidBack
<1>2. CASE payment[p] # "REFUNDED"
  <2>1. /\ pc[r] \in Open /\ req[r].op = "refund" /\ req[r].pay = p
        /\ pc[r] # "asked" /\ pc[r] # "locked"
    <3>1. r \in InWork /\ req[r].op = "refund" /\ req[r].pay = p /\ pc[r] # "asked"
      BY <1>2 DEF PaidBack
    <3> QED
      BY <3>1 DEF InWork, RequestOK, PathOK
  <2>2. Continue(r)
    BY <2>1 DEF Step, Arrive, WebhookRead, RefundRead, ReviewRead, ExpireRead, Admit
  <2>3. MarkPayment(r) \/ Flush(r) \/ RefundCommit(r)
    BY <2>1, <2>2 DEF Continue, Activate, UnderReview, WebhookCommit, DeferredEnd, ProviderRefunds,
                      ProviderDeclines, ReviewCommit, ExpireCommit
  <2>4. CASE MarkPayment(r) \/ Flush(r)
    <3>1. pc'[r] \in Open /\ pc'[r] # "asked" /\ req' = req
      BY <2>4 DEF MarkPayment, Flush, Go, work, TypeOK
    <3> QED
      BY <2>1, <3>1 DEF PaidBack, InWork
  <2>5. CASE RefundCommit(r)
    BY <2>1, <2>5, RefundWrites DEF PaidBack, TypeOK
  <2> QED
    BY <2>3, <2>4, <2>5
<1> QED
  BY <1>1, <1>2

LEMMA RefundsStep ==
  ASSUME IInv, SeenStands, RefundsCounted, NEW r \in Req, Step(r), InWork \subseteq {r}
  PROVE  RefundsCounted'
<1> USE DEF IInv
<1> SUFFICES ASSUME NEW p \in Payment
             PROVE  /\ IsFiniteSet(FailedRefunds(p)')
                    /\ refunds'[p] <= Cardinality(FailedRefunds(p)') + IF PaidBack(p)' THEN 1 ELSE 0
  BY DEF RefundsCounted
<1>1. /\ IsFiniteSet(FailedRefunds(p)) /\ Cardinality(FailedRefunds(p)) \in Nat
      /\ refunds[p] \in Nat
      /\ refunds[p] <= Cardinality(FailedRefunds(p)) + IF PaidBack(p) THEN 1 ELSE 0
  BY FS_CardinalityType DEF RefundsCounted, TypeOK
<1>2. CASE r \notin FailedRefunds(p) /\ FailedRefunds(p)' = FailedRefunds(p) \cup {r}
  <2>1. /\ IsFiniteSet(FailedRefunds(p)')
        /\ Cardinality(FailedRefunds(p)') = Cardinality(FailedRefunds(p)) + 1
    BY <1>1, <1>2, FS_AddElement
  <2>2. ~ProviderRefunds(r)
    <3>1. r \in FailedRefunds(p)'
      BY <1>2
    <3>2. pc'[r] = "failed"
      BY <3>1 DEF FailedRefunds
    <3> QED
      BY <3>2 DEF ProviderRefunds, Go, TypeOK
  <2>3. refunds' = refunds
    BY <2>2, WhoRefunds
  <2> QED
    BY <1>1, <2>1, <2>3
<1>3. CASE FailedRefunds(p)' = FailedRefunds(p)
  <2>1. ~(Fail(r) /\ req[r].op = "refund" /\ req[r].pay = p)
    BY <1>3, FailedStep
  <2>2. PaidBack(p) => PaidBack(p)'
    BY <2>1, PaidBackStep
  <2>3. CASE ~(ProviderRefunds(r) /\ req[r].pay = p)
    <3>1. refunds'[p] = refunds[p]
      BY <2>3, WhoRefunds DEF ProviderRefunds, TypeOK
    <3> QED
      BY <1>1, <1>3, <2>2, <3>1
  <2>4. CASE ProviderRefunds(r) /\ req[r].pay = p
    <3>1. pc[r] = "asked" /\ req[r].op = "refund"
      BY <2>4 DEF ProviderRefunds, RequestOK, PathOK
    <3>2. payment[p] = "SUCCESS"
      BY <2>4, <3>1 DEF SeenStands, InWork, StillRefundable, Refundable
    <3>3. ~PaidBack(p)
      BY <3>1, <3>2 DEF PaidBack
    <3>4. refunds'[p] = refunds[p] + 1
      BY <2>4 DEF ProviderRefunds, TypeOK
    <3>5. PaidBack(p)'
      <4>1. pc'[r] = "read" /\ req' = req
        BY <2>4 DEF ProviderRefunds, Go, TypeOK, work
      <4> QED
        BY <2>4, <3>1, <4>1 DEF PaidBack, InWork
    <3> QED
      BY <1>1, <1>3, <3>3, <3>4, <3>5
  <2> QED
    BY <2>3, <2>4
<1> QED
  BY <1>2, <1>3, FailedStep

\* Time and checkouts leave refunds alone.
LEMMA BackgroundRefunds ==
  ASSUME IInv, RefundsCounted, Background \/ UNCHANGED vars
  PROVE  RefundsCounted'
<1> USE DEF IInv, work
<1>1. UNCHANGED <<pc, req, refunds>>
  BY BackgroundMoves
<1>2. \A p \in Payment : payment[p] = "REFUNDED" => payment'[p] = "REFUNDED"
  BY DEF Background, Tick, Checkout, vars, tables, TypeOK
<1>3. \A p \in Payment : FailedRefunds(p)' = FailedRefunds(p) /\ (PaidBack(p) => PaidBack(p)')
  BY <1>1, <1>2 DEF FailedRefunds, PaidBack, InWork
<1> SUFFICES ASSUME NEW p \in Payment
             PROVE  /\ IsFiniteSet(FailedRefunds(p)')
                    /\ refunds'[p] <= Cardinality(FailedRefunds(p)') + IF PaidBack(p)' THEN 1 ELSE 0
  BY DEF RefundsCounted
<1>4. /\ IsFiniteSet(FailedRefunds(p)) /\ Cardinality(FailedRefunds(p)) \in Nat
      /\ refunds[p] \in Nat
      /\ refunds[p] <= Cardinality(FailedRefunds(p)) + IF PaidBack(p) THEN 1 ELSE 0
  BY FS_CardinalityType DEF RefundsCounted, TypeOK
<1> QED
  BY <1>1, <1>3, <1>4

-----------------------------------------------------------------------------
LEMMA SerialInit == Init => SerialInv
<1> SUFFICES ASSUME Init PROVE SerialInv
  OBVIOUS
<1>1. InWork = {}
  BY DEF Init, InWork
<1>2. \A p \in Payment : FailedRefunds(p) = {} /\ refunds[p] = 0
  BY DEF Init, FailedRefunds
<1>3. RefundsCounted
  BY <1>2, FS_EmptySet DEF RefundsCounted
<1>4. OneActiveSubscription
  BY DEF Init, OneActiveSubscription
<1> QED
  BY <1>1, <1>3, <1>4 DEF Init, SerialInv, OneOpen, SeenStands, GrantedIsTerminal, GrantedOnce

LEMMA SerialStep ==
  ASSUME IInv, TypeOK', LoadBounded, SerialInv, [Next]_vars, MaxInFlight = 1
  PROVE  SerialInv'
<1> USE DEF SerialInv
<1>1. GrantedIsTerminal' /\ GrantedOnce' /\ OneActiveSubscription'
  BY GrantStep, OneActiveStep
<1>2. CASE Background \/ UNCHANGED vars
  <2>1. OneOpen'
    BY <1>2, BackgroundMoves DEF OneOpen, InWork
  <2> QED
    BY <1>1, <1>2, <2>1, BackgroundSeen, BackgroundRefunds
<1>3. ASSUME NEW r \in Req, Step(r)
      PROVE  SerialInv'
  <2>1. InWork \subseteq {r} /\ \A o \in InWork' : o = r
    BY <1>3, Alone DEF IInv
  <2>2. OneOpen'
    BY <2>1 DEF OneOpen
  <2> QED
    BY <1>1, <1>3, <2>1, <2>2, SeenStep, RefundsStep
<1> QED
  BY <1>2, <1>3, NextIsStep

\* The strengthened invariant of a serial load.
THEOREM SerialInvariant == MaxInFlight = 1 => (Spec => []SerialInv)
<1> SUFFICES ASSUME MaxInFlight = 1 PROVE Spec => []SerialInv
  OBVIOUS
<1>1. IInv /\ TypeOK' /\ LoadBounded /\ SerialInv /\ [Next]_vars => SerialInv'
  BY SerialStep
<1> QED
  BY <1>1, SerialInit, TypeCorrect, Invariant, LoadLimit, PTL DEF Spec

\* Served one at a time, no payment is granted twice.
THEOREM GrantedAtMostOnce == MaxInFlight = 1 => (Spec => []GrantedOnce)
<1>1. SerialInv => GrantedOnce
  BY DEF SerialInv
<1> QED
  BY <1>1, SerialInvariant, PTL

\* Served one at a time, a user has at most one running subscription.
THEOREM OneSubscription == MaxInFlight = 1 => (Spec => []OneActiveSubscription)
<1>1. SerialInv => OneActiveSubscription
  BY DEF SerialInv
<1> QED
  BY <1>1, SerialInvariant, PTL

\* Served one at a time, the provider pays a payment back once, and once more
\* for every refund that failed after it had.
THEOREM RefundedOnce == MaxInFlight = 1 => (Spec => []RefundedOnceUnlessFailed)
<1>1. TypeOK /\ SerialInv => RefundedOnceUnlessFailed
  <2> SUFFICES ASSUME TypeOK, SerialInv, NEW p \in Payment
               PROVE  refunds[p] <= 1 + Cardinality(FailedRefunds(p))
    BY DEF RefundedOnceUnlessFailed, FailedRefunds
  <2>1. /\ Cardinality(FailedRefunds(p)) \in Nat /\ refunds[p] \in Nat
        /\ refunds[p] <= Cardinality(FailedRefunds(p)) + IF PaidBack(p) THEN 1 ELSE 0
    BY FS_CardinalityType DEF SerialInv, RefundsCounted, TypeOK
  <2> QED
    BY <2>1
<1> QED
  BY <1>1, SerialInvariant, TypeCorrect, PTL

\* Served one at a time, a successful payment ends at most as a refund, and a
\* refund never.
THEOREM TerminalStays == MaxInFlight = 1 => (Spec => TerminalIsFinal)
<1> SUFFICES ASSUME MaxInFlight = 1 PROVE Spec => TerminalIsFinal
  OBVIOUS
<1>1. IInv /\ SerialInv /\ [Next]_vars =>
        [\A p \in Payment :
           /\ payment[p] = "SUCCESS" => payment'[p] \in {"SUCCESS", "REFUNDED"}
           /\ payment[p] = "REFUNDED" => payment'[p] = "REFUNDED"]_vars
  BY TerminalStep DEF SerialInv
<1> QED
  BY <1>1, Invariant, SerialInvariant, PTL DEF Spec, TerminalIsFinal

-----------------------------------------------------------------------------
\* A late webhook only moves a verification that is not paid for yet.
LEMMA DecisionStep ==
  ASSUME IInv, SeenStands, [Next]_vars, NEW p \in Payment, ver[p].status \in Decision
  PROVE  ver'[p].status \in Decision \cup {"EXPIRED"}
<1> USE DEF IInv
<1>1. CASE UNCHANGED ver
  BY <1>1
<1>2. ASSUME NEW q \in Payment, Checkout(q)
      PROVE  ver'[p].status \in Decision \cup {"EXPIRED"}
  <2>1. payment[p] # "NONE" /\ payment[q] = "NONE"
    BY <1>2 DEF VerificationExists, Checkout
  <2>2. ver'[p] = ver[p]
    BY <1>2, <2>1 DEF Checkout, TypeOK
  <2> QED
    BY <2>2
<1>3. ASSUME NEW r \in Req, WebhookCommit(r)
      PROVE  ver'[p].status \in Decision \cup {"EXPIRED"}
  <2>1. CASE req[r].out = "SUCCESS" /\ Kind[req[r].pay] = "JOB_VERIFICATION"
             /\ ver' = [ver EXCEPT ![req[r].pay].status = IF req[r].pay \in rows[r] THEN "UNDER_REVIEW" ELSE @]
    <3>1. StillUnpaid(r)
      BY <1>3, <2>1, WebhookWrites DEF Stands, Delivers, WebhookCommit
    <3>2. p \in rows[r] => p # req[r].pay
      BY <3>1 DEF StillUnpaid
    <3>3. ver'[p].status = ver[p].status
      BY <2>1, <3>2 DEF TypeOK
    <3> QED
      BY <3>3
  <2> QED
    BY <1>1, <1>3, <2>1 DEF WebhookCommit
<1>4. ASSUME NEW r \in Req, ReviewCommit(r)
      PROVE  ver'[p].status \in Decision \cup {"EXPIRED"}
  <2>1. staged[r] \in {"NONE"} \cup Decision
    BY <1>4 DEF ReviewCommit, RequestOK, StagedFits
  <2> QED
    BY <1>4, <2>1 DEF ReviewCommit, TypeOK
<1>5. ASSUME NEW r \in Req, ExpireCommit(r)
      PROVE  ver'[p].status \in Decision \cup {"EXPIRED"}
  BY <1>5 DEF ExpireCommit, TypeOK
<1>6. \/ UNCHANGED ver \/ \E q \in Payment : Checkout(q)
      \/ \E r \in Req : WebhookCommit(r) \/ ReviewCommit(r) \/ ExpireCommit(r)
  BY NextIsStep, WhoWrites DEF tables, vars, RefundCommit, Background, Tick
<1> QED
  BY <1>1, <1>2, <1>3, <1>4, <1>5, <1>6

\* Served one at a time, no webhook takes a reviewer's decision back.
THEOREM DecisionsStand == MaxInFlight = 1 => (Spec => DecisionStands)
<1> SUFFICES ASSUME MaxInFlight = 1 PROVE Spec => DecisionStands
  OBVIOUS
<1>1. IInv /\ SerialInv /\ [Next]_vars =>
        [\A p \in Payment :
           ver[p].status \in Decision => ver'[p].status \in Decision \cup {"EXPIRED"}]_vars
  BY DecisionStep DEF SerialInv
<1> QED
  BY <1>1, Invariant, SerialInvariant, PTL DEF Spec, DecisionStands

-----------------------------------------------------------------------------
(***************************************************************************)
(* Renewals.  A user's last expiry is that of his running subscription.    *)
(***************************************************************************)
LEMMA MaxIs ==
  ASSUME NEW S, S \subseteq Nat, NEW m \in S, \A y \in S : y <= m
  PROVE  Max(S) = m
<1>1. \A y \in S : m >= y
  OBVIOUS
<1>2. Max(S) \in S /\ \A y \in S : Max(S) >= y
  BY <1>1 DEF Max
<1>3. Max(S) >= m /\ m >= Max(S) /\ Max(S) \in Nat /\ m \in Nat
  BY <1>1, <1>2
<1> QED
  BY <1>3

LEMMA LastExpiryIs ==
  ASSUME TypeOK, NEW u
  PROVE  /\ Active(u) = {} => LastExpiry(u) = 0
         /\ \A i \in Active(u) : Active(u) = {i} => LastExpiry(u) = subs[i].expires
<1>1. ASSUME Active(u) = {} PROVE LastExpiry(u) = 0
  <2>1. {subs[i].expires : i \in Active(u)} \cup {0} = {0}
    BY <1>1
  <2>2. Max({0}) = 0
    BY MaxIs
  <2> QED
    BY <2>1, <2>2 DEF LastExpiry
<1>2. ASSUME NEW i \in Active(u), Active(u) = {i} PROVE LastExpiry(u) = subs[i].expires
  <2>1. subs[i].expires \in Nat
    BY DEF Active, TypeOK
  <2>2. {subs[j].expires : j \in Active(u)} \cup {0} = {subs[i].expires, 0}
    BY <1>2
  <2>3. Max({subs[i].expires, 0}) = subs[i].expires
    BY <2>1, MaxIs
  <2> QED
    BY <2>2, <2>3 DEF LastExpiry
<1> QED
  BY <1>1, <1>2

\* The same of the next state, where the renewal is made.
LEMMA LastExpiryWillBe ==
  ASSUME TypeOK', NEW u, NEW i, Active(u)' = {i}
  PROVE  LastExpiry(u)' = subs'[i].expires
<1>1. subs'[i].expires \in Nat
  BY DEF Active, TypeOK
<1>2. {subs'[j].expires : j \in Active(u)'} \cup {0} = {subs'[i].expires, 0}
  OBVIOUS
<1> QED
  BY <1>1, <1>2, MaxIs DEF LastExpiry

LEMMA RenewalStep ==
  ASSUME IInv, TypeOK', SeenStands, OneActiveSubscription, [Next]_vars,
         NEW r \in Req, NEW p \in Payment, <<r, p>> \in granted' \ granted
  PROVE  LastExpiry(Owner[p])' >= LastExpiry(Owner[p]) + Days[p]
<1> USE DEF IInv
<1> DEFINE u == Owner[p]
<1>1. /\ WebhookCommit(r) /\ req[r].out = "SUCCESS" /\ Kind[req[r].pay] = "SUBSCRIPTION"
      /\ p = req[r].pay
  <2>1. PICK q \in Req : WebhookCommit(q)
    BY NextIsStep, BackgroundMoves, WhoWrites DEF tables, RefundCommit, ReviewCommit, ExpireCommit
  <2> QED
    BY <2>1 DEF WebhookCommit
<1>2. Days[p] \in Nat /\ u \in User /\ until[r] \in Nat
  BY CheckoutAssumption DEF TypeOK
<1>3. CASE Active(u) = {} /\ until[r] >= Days[p]
           /\ subs' = [subs EXCEPT ![r] = [user |-> u, status |-> "ACTIVE", expires |-> until[r]]]
  <2>1. Active(u)' = {r} /\ subs'[r].expires = until[r]
    BY <1>3 DEF Active, TypeOK
  <2>2. LastExpiry(u) = 0
    BY <1>3, LastExpiryIs
  <2>3. LastExpiry(u)' = until[r]
    BY <2>1, LastExpiryWillBe
  <2> QED
    BY <1>2, <1>3, <2>2, <2>3
<1>4. ASSUME NEW i \in Active(u), until[r] >= subs[i].expires + Days[p],
             subs' = [subs EXCEPT ![i].expires = until[r]]
      PROVE  LastExpiry(u)' >= LastExpiry(u) + Days[p]
  <2>1. Active(u) = {i} /\ i \in Req /\ subs[i] \in SubRow
    BY DEF OneActiveSubscription, Active, TypeOK
  <2>2. Active(u)' = {i} /\ subs'[i].expires = until[r]
    BY <1>4, <2>1 DEF Active, TypeOK
  <2> QED
    BY <1>2, <1>4, <2>1, <2>2, LastExpiryIs, LastExpiryWillBe
<1> QED
  BY <1>1, <1>3, <1>4, SubscriptionWrites

\* Served one at a time, a renewal adds the full duration of its plan.
THEOREM RenewalsExtend == MaxInFlight = 1 => (Spec => RenewalExtends)
<1> SUFFICES ASSUME MaxInFlight = 1 PROVE Spec => RenewalExtends
  OBVIOUS
<1>1. IInv /\ TypeOK' /\ SerialInv /\ [Next]_vars =>
        [\A r \in Req, p \in Payment :
           <<r, p>> \in granted' \ granted =>
             LastExpiry(Owner[p])' >= LastExpiry(Owner[p]) + Days[p]]_vars
  BY RenewalStep DEF SerialInv
<1> QED
  BY <1>1, Invariant, TypeCorrect, SerialInvariant, PTL DEF Spec, RenewalExtends

-----------------------------------------------------------------------------
(***************************************************************************)
(* Nobody is premium longer than granted, however requests interleave.     *)
(***************************************************************************)

\* A new grant adds the days of its plan.
LEMMA GrantAdds ==
  ASSUME TypeOK, GrantsCommitted, NEW r \in Req, pc[r] # "committed", NEW p \in Payment,
         granted' = granted \cup {<<r, p>>}, NEW u \in User
  PROVE  /\ IsFiniteSet(DaysGranted(u)')
         /\ GrantedDays(u) \in Nat
         /\ GrantedDays(u)' = GrantedDays(u) + IF u = Owner[p] THEN Days[p] ELSE 0
<1>1. IsFiniteSet(DaysGranted(u)) /\ GrantedDays(u) \in Nat
  BY FS_CardinalityType DEF GrantsCommitted, GrantedDays
<1>2. CASE u # Owner[p]
  <2>1. {h \in granted' : Owner[h[2]] = u} = {h \in granted : Owner[h[2]] = u}
    BY <1>2
  <2>2. DaysGranted(u)' = DaysGranted(u)
    BY <2>1 DEF DaysGranted
  <2> QED
    BY <1>1, <1>2, <2>2 DEF GrantedDays
<1>3. CASE u = Owner[p]
  <2> DEFINE new == {<<r, p>>} \X (1 .. Days[p])
  <2>1. {h \in granted' : Owner[h[2]] = u} = {h \in granted : Owner[h[2]] = u} \cup {<<r, p>>}
    BY <1>3
  <2>2. DaysGranted(u)' = DaysGranted(u) \cup new
    <3>1. DaysGranted(u)' = UNION {{g} \X (1 .. Days[g[2]]) : g \in {h \in granted' : Owner[h[2]] = u}}
      BY DEF DaysGranted
    <3> HIDE DEF new
    <3>2. ASSUME NEW x
          PROVE  x \in DaysGranted(u)' <=>
                   \E g \in {h \in granted : Owner[h[2]] = u} \cup {<<r, p>>} : x \in {g} \X (1 .. Days[g[2]])
      BY <3>1, <2>1
    <3>3. ASSUME NEW x
          PROVE  x \in DaysGranted(u) <=>
                   \E g \in {h \in granted : Owner[h[2]] = u} : x \in {g} \X (1 .. Days[g[2]])
      BY DEF DaysGranted
    <3>4. ASSUME NEW x
          PROVE  x \in new <=> \E g \in {<<r, p>>} : x \in {g} \X (1 .. Days[g[2]])
      BY DEF new
    <3> QED
      BY <3>2, <3>3, <3>4
  <2>3. Days[p] \in Nat
    BY CheckoutAssumption
  <2>4. IsFiniteSet(new) /\ Cardinality(new) = Days[p]
    <3>1. IsFiniteSet(1 .. Days[p]) /\ Cardinality(1 .. Days[p]) = Days[p]
      BY <2>3, FS_Interval
    <3>2. IsFiniteSet({<<r, p>>}) /\ Cardinality({<<r, p>>}) = 1
      BY FS_Singleton
    <3>3. IsFiniteSet(new) /\ Cardinality(new) = 1 * Days[p]
      BY <3>1, <3>2, FS_Product
    <3> QED
      BY <2>3, <3>3
  <2>5. DaysGranted(u) \cap new = {}
    <3>1. <<r, p>> \notin granted
      BY DEF GrantsCommitted
    <3>2. \A x \in DaysGranted(u) : x[1] \in granted
      BY DEF DaysGranted
    <3> QED
      BY <3>1, <3>2
  <2> HIDE DEF new
  <2>6. /\ IsFiniteSet(DaysGranted(u)')
        /\ Cardinality(DaysGranted(u)') = Cardinality(DaysGranted(u)) + Days[p]
    <3>1. /\ IsFiniteSet(DaysGranted(u) \cup new)
          /\ Cardinality(DaysGranted(u) \cup new) =
               Cardinality(DaysGranted(u)) + Cardinality(new) - Cardinality(DaysGranted(u) \cap new)
      BY <1>1, <2>4, FS_Union
    <3>2. Cardinality(DaysGranted(u) \cap new) = 0
      BY <2>5, FS_EmptySet
    <3>3. Cardinality(DaysGranted(u)) \in Nat
      BY <1>1 DEF GrantedDays
    <3> QED
      BY <2>2, <2>3, <2>4, <3>1, <3>2, <3>3
  <2> QED
    BY <1>1, <1>3, <2>3, <2>6 DEF GrantedDays
<1> QED
  BY <1>2, <1>3

\* What a step does to the grants.
LEMMA GrantCases ==
  ASSUME TypeOK, [Next]_vars
  PROVE  \/ granted' = granted
         \/ \E r \in Req :
              /\ WebhookCommit(r) /\ req[r].out = "SUCCESS" /\ Kind[req[r].pay] = "SUBSCRIPTION"
              /\ granted' = granted \cup {<<r, req[r].pay>>}
  BY NextIsStep, BackgroundMoves, WhoWrites
     DEF tables, WebhookCommit, RefundCommit, ReviewCommit, ExpireCommit

\* Days are granted and never taken back.
LEMMA GrantsGrow ==
  ASSUME IInv, GrantsCommitted, [Next]_vars
  PROVE  /\ GrantsCommitted'
         /\ \A u \in User : /\ GrantedDays(u) \in Nat /\ GrantedDays(u)' \in Nat
                            /\ GrantedDays(u)' >= GrantedDays(u)
<1> USE DEF IInv
<1>1. \A o \in Req : pc[o] = "committed" => pc'[o] = "committed"
  BY NextIsStep, BackgroundMoves, OneMoves DEF Rests
<1>2. \A u \in User : IsFiniteSet(DaysGranted(u)) /\ GrantedDays(u) \in Nat
  BY FS_CardinalityType DEF GrantsCommitted, GrantedDays
<1>3. CASE granted' = granted
  <2>1. \A u : DaysGranted(u)' = DaysGranted(u)
    BY <1>3 DEF DaysGranted
  <2>2. \A u : GrantedDays(u)' = GrantedDays(u)
    BY <2>1 DEF GrantedDays
  <2>3. \A g \in granted : g[1] \in Req
    BY DEF TypeOK
  <2> QED
    BY <1>1, <1>2, <1>3, <2>1, <2>2, <2>3 DEF GrantsCommitted
<1>4. ASSUME NEW r \in Req, WebhookCommit(r), granted' = granted \cup {<<r, req[r].pay>>}
      PROVE  /\ GrantsCommitted'
             /\ \A u \in User : /\ GrantedDays(u) \in Nat /\ GrantedDays(u)' \in Nat
                                /\ GrantedDays(u)' >= GrantedDays(u)
  <2>1. req[r].pay \in Payment /\ pc[r] = "ready" /\ pc'[r] = "committed"
    BY <1>4, NamesPayment DEF WebhookCommit, PayOp, Go, TypeOK
  <2>2. Days[req[r].pay] \in Nat
    BY <2>1, CheckoutAssumption
  <2>3. ASSUME NEW u \in User
        PROVE  /\ IsFiniteSet(DaysGranted(u)')
               /\ GrantedDays(u)' \in Nat /\ GrantedDays(u)' >= GrantedDays(u)
    <3>1. /\ IsFiniteSet(DaysGranted(u)') /\ GrantedDays(u) \in Nat
          /\ GrantedDays(u)' = GrantedDays(u) + IF u = Owner[req[r].pay] THEN Days[req[r].pay] ELSE 0
      BY <1>4, <2>1, GrantAdds
    <3> QED
      BY <2>2, <3>1
  <2>4. \A g \in granted : g[1] \in Req
    BY DEF TypeOK
  <2> QED
    BY <1>1, <1>2, <1>4, <2>1, <2>3, <2>4 DEF GrantsCommitted
<1> QED
  BY <1>3, <1>4, GrantCases

\* A renewal starts no later than today or where what was granted ends.
LEMMA ActivateCovered ==
  ASSUME IInv, NoMoreThanGranted, GrantsCommitted, NEW r \in Req, Activate(r)
  PROVE  until'[r] <= now + GrantedDays(Owner[req[r].pay]) + Days[req[r].pay]
<1> USE DEF IInv
<1> DEFINE p == req[r].pay
<1>1. p \in Payment /\ Owner[p] \in User /\ Days[p] \in Nat /\ now \in Nat
  BY NamesPayment, CheckoutAssumption DEF Activate, RequestOK, PathOK, PayOp, TypeOK
<1>2. GrantedDays(Owner[p]) \in Nat
  BY <1>1, FS_CardinalityType DEF GrantsCommitted, GrantedDays
<1>3. CASE until' = [until EXCEPT ![r] = now + Days[p]]
  <2>1. until'[r] = now + Days[p]
    BY <1>3 DEF TypeOK
  <2> QED
    BY <1>1, <1>2, <2>1
<1>4. ASSUME NEW i \in Active(Owner[p]), until' = [until EXCEPT ![r] = StartsAt(i) + Days[p]]
      PROVE  until'[r] <= now + GrantedDays(Owner[p]) + Days[p]
  <2>1. until'[r] = StartsAt(i) + Days[p]
    BY <1>4 DEF TypeOK
  <2>2. subs[i].expires \in Nat /\ subs[i].expires <= now + GrantedDays(Owner[p])
    BY DEF Active, TypeOK, NoMoreThanGranted
  <2>3. StartsAt(i) \in Nat /\ StartsAt(i) <= now + GrantedDays(Owner[p])
    BY <1>1, <1>2, <2>2 DEF StartsAt
  <2> QED
    BY <1>1, <1>2, <2>1, <2>3
<1> QED
  BY <1>3, <1>4 DEF Activate

\* Who delivers after a step of r either did before or has just activated.
LEMMA DeliversFrom ==
  ASSUME IInv, NEW r \in Req, Step(r), Delivers(r)', Kind[req'[r].pay] = "SUBSCRIPTION"
  PROVE  /\ req' = req
         /\ Activate(r) \/ (Delivers(r) /\ until'[r] = until[r])
<1> USE DEF IInv, Go, Begin, TypeOK, Delivers
<1>1. ASSUME Arrive(r) PROVE FALSE
  <2>1. ASSUME NEW op \in WebhookOps, NEW p \in Payment, NEW o \in Outcome, WebhookRead(r, op, p, o)
        PROVE  FALSE
    BY <2>1 DEF WebhookRead
  <2>2. ASSUME NEW p \in Payment, RefundRead(r, p)
        PROVE  FALSE
    BY <2>2 DEF RefundRead
  <2>3. ASSUME NEW p \in Payment, NEW d \in Decision, ReviewRead(r, p, d)
        PROVE  FALSE
    BY <2>3 DEF ReviewRead
  <2>4. ASSUME NEW op \in JobOps, ExpireRead(r, op)
        PROVE  FALSE
    BY <2>4 DEF ExpireRead
  <2> QED
    BY <1>1, <2>1, <2>2, <2>3, <2>4 DEF Arrive
<1>2. CASE Continue(r)
  <2>1. req' = req
    BY <1>2 DEF Continue, MarkPayment, Activate, UnderReview, Flush, DeferredEnd, ProviderRefunds,
       ProviderDeclines, WebhookCommit, RefundCommit, ReviewCommit, ExpireCommit, work
  <2>2. ASSUME ~Activate(r) PROVE Delivers(r) /\ until'[r] = until[r]
    <3>1. MarkPayment(r) \/ UnderReview(r) \/ Flush(r)
      BY <1>2, <2>2 DEF Continue, DeferredEnd, ProviderRefunds,
         ProviderDeclines, WebhookCommit, RefundCommit, ReviewCommit, ExpireCommit
    <3>2. Flush(r)
      BY <2>1, <3>1 DEF MarkPayment, UnderReview
    <3> QED
      BY <2>1, <3>2 DEF Flush, work
  <2> QED
    BY <2>1, <2>2
<1>3. ASSUME Fail(r) PROVE FALSE
  BY <1>3 DEF Fail
<1> QED
  BY <1>1, <1>2, <1>3 DEF Step

\* The expiry of a row changes only to what a webhook had computed for it.
LEMMA ExpiryFrom ==
  ASSUME IInv, [Next]_vars, NEW i \in Req, subs'[i] # NoSub
  PROVE  \/ subs[i] # NoSub /\ subs'[i].user = subs[i].user /\ subs'[i].expires = subs[i].expires
         \/ \E r \in Req : /\ WebhookCommit(r) /\ Delivers(r) /\ Kind[req[r].pay] = "SUBSCRIPTION"
                           /\ granted' = granted \cup {<<r, req[r].pay>>}
                           /\ subs'[i].user = Owner[req[r].pay]
                           /\ subs'[i].expires = until[r]
<1> USE DEF IInv
<1>1. CASE UNCHANGED subs
  BY <1>1
<1>2. ASSUME NEW r \in Req, ExpireCommit(r)
      PROVE  subs[i] # NoSub /\ subs'[i].user = subs[i].user /\ subs'[i].expires = subs[i].expires
  <2>1. i \in rows[r] => subs[i] # NoSub
    BY DEF RequestOK, LoadedExists
  <2>2. subs[i] # NoSub
    BY <1>2, <2>1 DEF ExpireCommit
  <2> QED
    BY <1>2, <2>2 DEF ExpireCommit, TypeOK
<1>3. ASSUME NEW r \in Req, WebhookCommit(r), req[r].out = "SUCCESS", Kind[req[r].pay] = "SUBSCRIPTION"
      PROVE  \/ subs[i] # NoSub /\ subs'[i] = subs[i]
             \/ /\ Delivers(r) /\ granted' = granted \cup {<<r, req[r].pay>>}
                /\ subs'[i].user = Owner[req[r].pay]
                /\ subs'[i].expires = until[r]
  <2>1. Delivers(r) /\ granted' = granted \cup {<<r, req[r].pay>>} /\ subs' = SubsAfter(r)
    BY <1>3 DEF WebhookCommit, Delivers
  <2>2. \A j \in rows[r] : j \in Req /\ subs[j].user = Owner[req[r].pay] /\ subs[j] # NoSub
    BY <1>3, <2>1 DEF RequestOK, RenewsOwn, LoadedExists
  <2>3. CASE rows[r] = {}
    <3>1. subs' = [subs EXCEPT ![r] = [user |-> Owner[req[r].pay], status |-> "ACTIVE", expires |-> until[r]]]
      BY <2>1, <2>3 DEF SubsAfter
    <3> QED
      BY <2>1, <3>1 DEF TypeOK
  <2>4. CASE rows[r] # {}
    <3>1. subs'[i] = IF i \in rows[r] THEN [subs[i] EXCEPT !.expires = until[r]] ELSE subs[i]
      BY <2>1, <2>4 DEF SubsAfter
    <3>2. CASE i \in rows[r]
      BY <2>1, <2>2, <3>1, <3>2 DEF TypeOK
    <3> QED
      BY <3>1, <3>2
  <2> QED
    BY <2>3, <2>4
<1>4. \/ UNCHANGED subs \/ \E r \in Req : ExpireCommit(r)
      \/ \E r \in Req : WebhookCommit(r) /\ req[r].out = "SUCCESS" /\ Kind[req[r].pay] = "SUBSCRIPTION"
  BY NextIsStep, BackgroundMoves, WhoWrites DEF tables, RefundCommit, ReviewCommit, WebhookCommit
<1> QED
  BY <1>1, <1>2, <1>3, <1>4

LEMMA NowGrows ==
  ASSUME TypeOK, [Next]_vars
  PROVE  now \in Nat /\ now' \in Nat /\ now' >= now
<1>1. Background \/ UNCHANGED vars => now' = now \/ now' = now + 1
  BY DEF Background, Tick, Checkout, vars
<1> QED
  BY <1>1, NextIsStep, OneMoves DEF TypeOK

LEMMA CoveredStep ==
  ASSUME IInv, IInv', CoveredInv, [Next]_vars
  PROVE  CoveredInv'
<1> USE DEF CoveredInv, IInv
<1>1. GrantsCommitted' /\ now \in Nat /\ now' \in Nat /\ now' >= now
  BY GrantsGrow, NowGrows
<1>2. NoMoreThanGranted'
  <2> SUFFICES ASSUME NEW i \in Req, subs'[i] # NoSub, NEW u \in User, u = subs'[i].user
               PROVE  subs'[i].expires <= now' + GrantedDays(u)'
    <3>1. ASSUME NEW i \in Req, subs'[i] # NoSub PROVE subs'[i].user \in User
      BY <3>1 DEF TypeOK
    <3> QED
      BY <3>1 DEF NoMoreThanGranted, GrantedDays, DaysGranted
  <2>1. subs'[i].expires \in Nat
    BY DEF TypeOK
  <2>2. GrantedDays(u) \in Nat /\ GrantedDays(u)' \in Nat /\ GrantedDays(u)' >= GrantedDays(u)
    BY GrantsGrow
  <2>3. CASE subs[i] # NoSub /\ subs'[i].user = subs[i].user /\ subs'[i].expires = subs[i].expires
    <3>1. subs[i].expires <= now + GrantedDays(u)
      BY <2>3 DEF NoMoreThanGranted
    <3> QED
      BY <1>1, <2>1, <2>2, <2>3, <3>1
  <2>4. ASSUME NEW r \in Req, WebhookCommit(r), Delivers(r), Kind[req[r].pay] = "SUBSCRIPTION",
               granted' = granted \cup {<<r, req[r].pay>>},
               u = Owner[req[r].pay], subs'[i].expires = until[r]
        PROVE  subs'[i].expires <= now' + GrantedDays(u)'
    <3>1. req[r].pay \in Payment /\ pc[r] = "ready"
      BY <2>4, NamesPayment DEF WebhookCommit, PayOp
    <3>2. PICK p \in Payment : p = req[r].pay /\ Days[p] \in Nat
      BY <3>1, CheckoutAssumption
    <3>3. until[r] <= now + GrantedDays(u) + Days[p]
      BY <2>4, <3>2 DEF PromisesCovered
    <3>4. GrantedDays(u)' = GrantedDays(u) + Days[p]
      BY <2>4, <3>1, <3>2, GrantAdds
    <3> QED
      BY <1>1, <2>1, <2>2, <2>4, <3>2, <3>3, <3>4
  <2> QED
    BY <2>3, <2>4, ExpiryFrom
<1>3. PromisesCovered'
  <2> SUFFICES ASSUME NEW q \in Req, Delivers(q)', NEW p \in Payment, p = req'[q].pay,
                      Kind[p] = "SUBSCRIPTION"
               PROVE  until'[q] <= now' + GrantedDays(Owner[p])' + Days[p]
    <3>1. ASSUME NEW q \in Req, Delivers(q)' PROVE req'[q].pay \in Payment
      BY <3>1 DEF Delivers, TypeOK
    <3> QED
      BY <3>1 DEF PromisesCovered, GrantedDays, DaysGranted
  <2>1. Days[p] \in Nat /\ Owner[p] \in User /\ until'[q] \in Nat
    BY CheckoutAssumption DEF TypeOK
  <2>2. PICK u \in User : u = Owner[p]
    BY <2>1
  <2>3. GrantedDays(u) \in Nat /\ GrantedDays(u)' \in Nat /\ GrantedDays(u)' >= GrantedDays(u)
    BY GrantsGrow
  <2>4. ASSUME until'[q] <= now + GrantedDays(Owner[p]) + Days[p]
        PROVE  until'[q] <= now' + GrantedDays(Owner[p])' + Days[p]
    BY <1>1, <2>1, <2>2, <2>3, <2>4
  <2>5. CASE Background \/ UNCHANGED vars
    <3>1. UNCHANGED <<pc, req, until>>
      BY <2>5, BackgroundMoves DEF work
    <3>2. Delivers(q)
      BY <3>1 DEF Delivers
    <3> QED
      BY <2>4, <3>1, <3>2 DEF PromisesCovered
  <2>6. ASSUME NEW r \in Req, Step(r)
        PROVE  until'[q] <= now + GrantedDays(Owner[p]) + Days[p]
    <3>1. CASE q # r
      <4>1. req'[q] = req[q] /\ pc'[q] = pc[q] /\ until'[q] = until[q]
        BY <2>6, <3>1, OneMoves DEF Rests
      <4>2. Delivers(q)
        BY <4>1 DEF Delivers
      <4> QED
        BY <4>1, <4>2 DEF PromisesCovered
    <3>2. CASE q = r
      <4>1. req' = req /\ (Activate(r) \/ (Delivers(r) /\ until'[r] = until[r]))
        BY <2>6, <3>2, DeliversFrom
      <4> QED
        BY <3>2, <4>1, ActivateCovered DEF PromisesCovered
    <3> QED
      BY <3>1, <3>2
  <2> QED
    BY <2>4, <2>5, <2>6, NextIsStep
<1> QED
  BY <1>1, <1>2, <1>3

LEMMA CoveredInit == Init => CoveredInv
<1> SUFFICES ASSUME Init PROVE CoveredInv
  OBVIOUS
<1>1. \A u : DaysGranted(u) = {}
  BY DEF Init, DaysGranted
<1> QED
  BY <1>1, FS_EmptySet DEF Init, CoveredInv, GrantsCommitted, PromisesCovered, NoMoreThanGranted, Delivers

\* However renewals, expiries and webhooks interleave, no subscription lasts
\* longer than the days that were granted to its user.
THEOREM NobodyGetsMore == Spec => []NoMoreThanGranted
<1>1. IInv /\ IInv' /\ CoveredInv /\ [Next]_vars => CoveredInv'
  BY CoveredStep
<1>2. CoveredInv => NoMoreThanGranted
  BY DEF CoveredInv
<1> QED
  BY <1>1, <1>2, CoveredInit, Invariant, PTL DEF Spec

-----------------------------------------------------------------------------
(***************************************************************************)
(* The ledger.  What an open request has computed stands, as above.        *)
(***************************************************************************)

\* Time and checkouts do not disturb it.
LEMMA BackgroundExact ==
  ASSUME IInv, ExactInv, Background \/ UNCHANGED vars
  PROVE  ExactInv'
<1> USE DEF IInv, work
<1>1. UNCHANGED <<pc, req, staged, rows, until, subs>> /\ now \in Nat /\ now' \in Nat /\ now' >= now
  BY BackgroundMoves, NowGrows DEF Next, Background
<1>2. \A p \in Payment : ver[p].status # "NONE" => ver'[p] = ver[p]
  BY DEF Background, Tick, Checkout, vars, tables, TypeOK, VerificationExists
<1> SUFFICES ASSUME NEW r \in Req, pc[r] \in Open PROVE Exact(r)'
  BY <1>1 DEF ExactInv, InWork
<1>3. Exact(r) /\ until[r] \in Nat
  BY DEF ExactInv, InWork, TypeOK
<1>4. ASSUME Delivers(r), Kind[req[r].pay] = "SUBSCRIPTION"
      PROVE  RenewsExactly(r)'
  <2>1. RenewsExactly(r) /\ req[r].pay \in Payment
    BY <1>3, <1>4, NamesPayment DEF Exact, Delivers, PayOp
  <2>2. PICK d \in Nat : d = Days[req[r].pay]
    BY <2>1, CheckoutAssumption
  <2>3. until[r] <= now + d => until[r] <= now' + d
    BY <1>1, <1>3, <2>2
  <2> QED
    BY <1>1, <2>1, <2>2, <2>3 DEF RenewsExactly
<1>5. ASSUME req[r].op \in JobOps PROVE StillOver(r)' /\ OneTable(r)'
  <2>1. StillOver(r) /\ OneTable(r)
    BY <1>3, <1>5 DEF Exact
  <2>2. \A i \in Req : subs[i].status = "ACTIVE" => subs[i].expires \in Nat
    BY DEF TypeOK
  <2>3. \A i \in Payment : ver[i].expires \in Nat
    BY DEF TypeOK
  <2>4. \A i \in Req : subs[i].status = "ACTIVE" /\ Over(subs[i].expires) => Over(subs[i].expires)'
    BY <1>1, <2>2 DEF Over
  <2>5. \A i \in Payment : ver[i].status = "VERIFIED" /\ Over(ver[i].expires) =>
                             ver'[i].status = "VERIFIED" /\ Over(ver[i].expires)'
    BY <1>1, <1>2, <2>3 DEF Over
  <2> QED
    BY <1>1, <2>1, <2>4, <2>5 DEF StillOver, OneTable
<1>6. ASSUME req[r].op = "review" PROVE StillDecided(r)'
  <2>1. StillDecided(r) /\ req[r].pay \in Payment /\ ver[req[r].pay].status # "NONE"
    BY <1>3, <1>6, NamesPayment DEF Exact, RequestOK, TargetExists, PayOp
  <2>2. Validity \in Nat
    BY BillingLoadAssumption
  <2> QED
    BY <1>1, <1>2, <1>3, <2>1, <2>2 DEF StillDecided
<1> QED
  BY <1>1, <1>4, <1>5, <1>6 DEF Exact, Delivers

LEMMA ArriveExact ==
  ASSUME IInv, NEW r \in Req, Arrive(r), pc'[r] \in Open
  PROVE  Exact(r)'
<1> USE DEF IInv, TypeOK, Begin, Go, Exact, Delivers, tables
<1>1. ASSUME NEW op \in WebhookOps, NEW p \in Payment, NEW o \in Outcome, WebhookRead(r, op, p, o)
      PROVE  Exact(r)'
  BY <1>1 DEF WebhookRead
<1>2. ASSUME NEW p \in Payment, RefundRead(r, p)
      PROVE  Exact(r)'
  BY <1>2 DEF RefundRead
<1>3. ASSUME NEW p \in Payment, NEW d \in Decision, ReviewRead(r, p, d)
      PROVE  Exact(r)'
  <2>1. /\ req'[r].op = "review" /\ req'[r].pay = p /\ req'[r].out = d
        /\ staged'[r] = IF ver[p].status = d THEN "NONE" ELSE d
        /\ until'[r] = now + Validity /\ UNCHANGED <<ver, now>>
    BY <1>3 DEF ReviewRead
  <2>2. Validity \in Nat /\ now \in Nat
    BY BillingLoadAssumption
  <2>3. StillDecided(r)'
    BY <2>1, <2>2 DEF StillDecided
  <2> QED
    BY <2>1, <2>3
<1>4. ASSUME NEW op \in JobOps, ExpireRead(r, op)
      PROVE  Exact(r)'
  <2>1. /\ req'[r].op = op /\ UNCHANGED <<subs, ver, now>>
        /\ rows'[r] = IF op = "expire_subscriptions"
                      THEN {i \in Req : subs[i] # NoSub /\ subs[i].status = "ACTIVE" /\ Over(subs[i].expires)}
                      ELSE {p \in Payment : ver[p].status = "VERIFIED" /\ Over(ver[p].expires)}
    BY <1>4 DEF ExpireRead
  <2>2. StillOver(r)' /\ OneTable(r)'
    BY <2>1 DEF StillOver, OneTable, Over
  <2> QED
    BY <2>1, <2>2
<1> QED
  BY <1>1, <1>2, <1>3, <1>4 DEF Arrive

LEMMA ContinueExact ==
  ASSUME IInv, NEW r \in Req, pc[r] \in Open => Exact(r), Continue(r) \/ Fail(r), pc'[r] \in Open
  PROVE  Exact(r)'
<1> USE DEF IInv, Go, work
<1>1. /\ pc[r] \in Open /\ UNCHANGED <<tables, now, req, staged>>
      /\ MarkPayment(r) \/ Activate(r) \/ UnderReview(r) \/ Flush(r) \/ ProviderRefunds(r)
  BY DEF Continue, MarkPayment, Activate, UnderReview, Flush, DeferredEnd, ProviderRefunds,
         ProviderDeclines, WebhookCommit, RefundCommit, ReviewCommit, ExpireCommit, Fail, TypeOK
<1>2. Exact(r) /\ RequestOK(r) /\ TypeOK
  BY <1>1
<1>3. CASE MarkPayment(r) \/ ProviderRefunds(r)
  <2>1. ~Delivers(r)' /\ req[r].op \in WebhookOps \cup {"refund"}
    BY <1>1, <1>2, <1>3 DEF MarkPayment, ProviderRefunds, Delivers, TypeOK, RequestOK, PathOK
  <2> QED
    BY <1>1, <2>1 DEF Exact
<1>4. CASE Flush(r)
  <2>1. Delivers(r)' <=> Delivers(r)
    BY <1>1, <1>2, <1>4 DEF Flush, Delivers, TypeOK
  <2>2. UNCHANGED <<subs, ver, rows, until>>
    BY <1>4 DEF Flush, tables
  <2> QED
    BY <1>1, <1>2, <2>1, <2>2 DEF Exact, RenewsExactly, StillOver, OneTable, StillDecided, Over
<1>5. CASE Activate(r)
  <2>1. req[r].op \in WebhookOps /\ req[r].pay \in Payment
    BY <1>2, <1>5, NamesPayment DEF Activate, RequestOK, PathOK, PayOp
  <2>2. Days[req[r].pay] \in Nat /\ now \in Nat
    BY <1>2, <2>1, CheckoutAssumption DEF TypeOK
  <2>3. CASE rows' = [rows EXCEPT ![r] = {}] /\ until' = [until EXCEPT ![r] = now + Days[req[r].pay]]
    <3>1. rows'[r] = {} /\ until'[r] = now + Days[req[r].pay]
      BY <1>2, <2>3 DEF TypeOK
    <3>2. RenewsExactly(r)'
      BY <1>1, <2>2, <3>1 DEF RenewsExactly
    <3> QED
      BY <1>1, <2>1, <3>2 DEF Exact
  <2>4. ASSUME NEW i \in Active(Owner[req[r].pay]), rows' = [rows EXCEPT ![r] = {i}],
               until' = [until EXCEPT ![r] = StartsAt(i) + Days[req[r].pay]]
        PROVE  Exact(r)'
    <3>1. rows'[r] = {i} /\ until'[r] = StartsAt(i) + Days[req[r].pay]
      BY <1>2, <2>4 DEF TypeOK
    <3>2. StartsAt(i) = subs'[i].expires \/ StartsAt(i) = now
      BY <1>1 DEF StartsAt, tables
    <3>3. RenewsExactly(r)'
      BY <1>1, <2>2, <3>1, <3>2 DEF RenewsExactly
    <3> QED
      BY <1>1, <2>1, <3>3 DEF Exact
  <2> QED
    BY <1>5, <2>3, <2>4 DEF Activate
<1>6. CASE UnderReview(r)
  <2>1. req[r].op \in WebhookOps /\ Kind[req[r].pay] = "JOB_VERIFICATION"
    BY <1>2, <1>6 DEF UnderReview, RequestOK, PathOK
  <2> QED
    BY <1>1, <2>1 DEF Exact
<1> QED
  BY <1>1, <1>3, <1>4, <1>5, <1>6

LEMMA ExactStep ==
  ASSUME IInv, LoadBounded, ExactInv, [Next]_vars, MaxInFlight = 1
  PROVE  ExactInv'
<1>1. ASSUME NEW r \in Req, Step(r) PROVE ExactInv'
  <2>1. \A o \in InWork' : o = r
    BY <1>1, Alone DEF IInv
  <2>2. pc[r] \in Open => Exact(r)
    BY DEF ExactInv, InWork
  <2>3. pc'[r] \in Open => Exact(r)'
    BY <1>1, <2>2, ArriveExact, ContinueExact DEF Step
  <2> QED
    BY <2>1, <2>3 DEF ExactInv, InWork
<1> QED
  BY <1>1, BackgroundExact, NextIsStep

\* Served one at a time, what a request has computed is exact until it commits.
THEOREM ExactInvariant == MaxInFlight = 1 => (Spec => []ExactInv)
<1> SUFFICES ASSUME MaxInFlight = 1 PROVE Spec => []ExactInv
  OBVIOUS
<1>1. IInv /\ LoadBounded /\ ExactInv /\ [Next]_vars => ExactInv'
  BY ExactStep
<1>2. Init => ExactInv
  BY DEF Init, ExactInv, InWork
<1> QED
  BY <1>1, <1>2, Invariant, LoadLimit, PTL DEF Spec

-----------------------------------------------------------------------------
(***************************************************************************)
(* What each commit is for the ledger.                                     *)
(***************************************************************************)
LEMMA SameEnds == UNCHANGED subs => UNCHANGED Ends
  BY DEF Ends, LastExpiry, Active

LEMMA SameReviews == UNCHANGED ver => UNCHANGED <<Review, Due>>
  BY DEF Review, Due

LEMMA SameGrants == UNCHANGED granted => UNCHANGED Settled
  BY DEF Settled

\* A user none of whose running subscriptions changes.
LEMMA SameLastExpiry ==
  ASSUME NEW u, Active(u)' = Active(u), \A i \in Active(u) : subs'[i].expires = subs[i].expires
  PROVE  LastExpiry(u)' = LastExpiry(u)
<1>1. {subs'[i].expires : i \in Active(u)'} = {subs[i].expires : i \in Active(u)}
  OBVIOUS
<1> QED
  BY <1>1 DEF LastExpiry

LEMMA NoLastExpiry ==
  ASSUME NEW u, Active(u)' = {}
  PROVE  LastExpiry(u)' = 0
<1>1. {subs'[i].expires : i \in Active(u)'} \cup {0} = {0}
  OBVIOUS
<1>2. Max({0}) = 0
  BY MaxIs
<1> QED
  BY <1>1, <1>2 DEF LastExpiry

LEMMA CheckoutOrders ==
  ASSUME IInv, NEW p \in Payment, Checkout(p)
  PROVE  Account!Order(p)
<1> USE DEF IInv
<1>1. ver[p].status = "NONE" /\ ver[p] \in [status : VerStatus, expires : Nat]
  BY DEF Checkout, VerificationExists, TypeOK
<1>2. PICK s : /\ s = IF Kind[p] = "JOB_VERIFICATION" THEN "PENDING_PAYMENT" ELSE "NONE"
               /\ ver' = [ver EXCEPT ![p] = [ver[p] EXCEPT !.status = s]]
  BY DEF Checkout, TypeOK
<1>3. \A q \in Payment : /\ ver'[q].status = IF q = p THEN s ELSE ver[q].status
                         /\ ver'[q].expires = ver[q].expires
  BY <1>1, <1>2 DEF TypeOK
<1>4. Due' = Due
  BY <1>3 DEF Due
<1>5. Review' = IF Kind[p] = "JOB_VERIFICATION"
                THEN [Review EXCEPT ![p] = "PENDING_PAYMENT"] ELSE Review
  BY <1>1, <1>2, <1>3 DEF Review
<1> QED
  BY <1>4, <1>5, SameEnds, SameGrants DEF Account!Order, Checkout

\* A webhook that commits is about a payment that is not settled.
LEMMA WebhookSettles ==
  ASSUME IInv, SeenStands, NEW r \in Req, WebhookCommit(r), NEW p, p = req[r].pay
  PROVE  /\ p \in Payment /\ payment[p] \in {"PENDING", "FAILED"}
         /\ req[r].out = "SUCCESS" => payment' = [payment EXCEPT ![p] = "SUCCESS"]
         /\ req[r].out = "FAILED" =>
              \/ payment' = payment
              \/ payment[p] = "PENDING" /\ payment' = [payment EXCEPT ![p] = "FAILED"]
<1> USE DEF IInv
<1>1. p \in Payment /\ Stands(r) /\ StillNews(r) /\ payment[p] # "NONE"
  BY WebhookWrites DEF Stands, WebhookCommit, RequestOK, TargetExists
<1>2. payment[p] \in {"PENDING", "FAILED"}
  BY <1>1 DEF StillNews, Terminal, TypeOK
<1> QED
  BY <1>1, <1>2 DEF StillNews, WebhookCommit, PaymentAfter

LEMMA FailureBounces ==
  ASSUME IInv, SeenStands, NEW r \in Req, WebhookCommit(r), req[r].out = "FAILED"
  PROVE  Account!Bounce(req[r].pay) \/ UNCHANGED <<now, payment, Settled, Ends, Review, Due>>
<1>1. UNCHANGED <<now, subs, ver, granted>>
  BY DEF WebhookCommit
<1> QED
  BY <1>1, WebhookSettles, SameEnds, SameReviews, SameGrants DEF Account!Bounce

LEMMA SuccessSettlesVerification ==
  ASSUME IInv, SeenStands, NEW r \in Req, WebhookCommit(r), req[r].out = "SUCCESS",
         Kind[req[r].pay] = "JOB_VERIFICATION"
  PROVE  Account!SettleVerification(req[r].pay)
<1> USE DEF IInv
<1>1. PICK p \in Payment : p = req[r].pay
  BY WebhookSettles
<1>2. /\ ver' = [ver EXCEPT ![p].status = IF p \in rows[r] THEN "UNDER_REVIEW" ELSE @]
      /\ UNCHANGED <<now, subs, granted>> /\ Delivers(r)
  BY <1>1 DEF WebhookCommit, Delivers
<1>3. p \in rows[r] => ver[p].status = "PENDING_PAYMENT"
  BY <1>1, <1>2, WebhookWrites DEF Stands, StillUnpaid
<1>4. p \notin rows[r] => ver[p].status # "PENDING_PAYMENT"
  BY <1>1, <1>2 DEF RequestOK, SeenPaid, Delivered
<1>5. \A q \in Payment :
        /\ ver'[q].expires = ver[q].expires
        /\ ver'[q].status = IF q = p /\ ver[p].status = "PENDING_PAYMENT"
                            THEN "UNDER_REVIEW" ELSE ver[q].status
  BY <1>2, <1>3, <1>4 DEF TypeOK
<1>6. Due' = Due
  BY <1>5 DEF Due
<1>7. Review' = [Review EXCEPT ![p] = IF @ = "PENDING_PAYMENT" THEN "UNDER_REVIEW" ELSE @]
  BY <1>5 DEF Review
<1>8. Account!Settle(p)
  BY <1>1, WebhookSettles DEF Account!Settle
<1> QED
  BY <1>1, <1>2, <1>6, <1>7, <1>8, SameEnds, SameGrants DEF Account!SettleVerification

\* The days a plan adds count from the end of the running subscription or
\* from a day that has come.
LEMMA PlanWrites ==
  ASSUME IInv, SeenStands, ExactInv, OneActiveSubscription, NEW r \in Req, WebhookCommit(r),
         req[r].out = "SUCCESS", NEW p, p = req[r].pay, Kind[p] = "SUBSCRIPTION"
  PROVE  \E start \in {LastExpiry(Owner[p])} \cup (LastExpiry(Owner[p]) .. now) :
           until[r] = start + Days[p]
<1> USE DEF IInv
<1>1. p \in Payment /\ Stands(r) /\ Delivers(r) /\ r \in InWork
  BY WebhookWrites DEF WebhookCommit, Delivers, InWork
<1>2. StillRenews(r) /\ RenewsExactly(r)
  BY <1>1 DEF Stands, ExactInv, Exact
<1>3. Days[p] \in Nat /\ until[r] \in Nat /\ now \in Nat
  BY <1>1, CheckoutAssumption DEF TypeOK
<1>4. PICK e : e = LastExpiry(Owner[p])
  OBVIOUS
<1>5. e \in Nat /\ e + Days[p] <= until[r] /\ (until[r] = e + Days[p] \/ until[r] <= now + Days[p])
  <2>1. CASE rows[r] = {} /\ Active(Owner[p]) = {} /\ until[r] >= Days[p]
    <3>1. e = 0
      BY <1>4, <2>1, LastExpiryIs
    <3> QED
      BY <1>2, <1>3, <2>1, <3>1 DEF RenewsExactly
  <2>2. ASSUME NEW i \in Active(Owner[p]), rows[r] = {i}, until[r] >= subs[i].expires + Days[p]
        PROVE  e \in Nat /\ e + Days[p] <= until[r] /\ (until[r] = e + Days[p] \/ until[r] <= now + Days[p])
    <3>1. Active(Owner[p]) = {i} /\ subs[i].expires \in Nat
      BY DEF OneActiveSubscription, Active, TypeOK
    <3>2. e = subs[i].expires
      BY <1>4, <3>1, LastExpiryIs
    <3> QED
      BY <1>2, <1>3, <2>2, <3>1, <3>2 DEF RenewsExactly
  <2> QED
    BY <1>2, <2>1, <2>2 DEF StillRenews
<1>6. PICK start \in Nat : start = until[r] - Days[p]
  BY <1>3, <1>5
<1>7. until[r] = start + Days[p] /\ (start = e \/ (e <= start /\ start <= now))
  BY <1>3, <1>5, <1>6
<1> QED
  BY <1>3, <1>4, <1>5, <1>7

LEMMA PlanEnds ==
  ASSUME IInv, TypeOK', SeenStands, OneActiveSubscription, NEW r \in Req, WebhookCommit(r),
         req[r].out = "SUCCESS", NEW p, p = req[r].pay, Kind[p] = "SUBSCRIPTION"
  PROVE  Ends' = [Ends EXCEPT ![Owner[p]] = until[r]]
<1> USE DEF IInv
<1>1. PICK u \in User : u = Owner[p]
  BY WebhookWrites, CheckoutAssumption
<1>2. CASE Active(u) = {} /\ subs[r] = NoSub
           /\ subs' = [subs EXCEPT ![r] = [user |-> u, status |-> "ACTIVE", expires |-> until[r]]]
  <2>1. Active(u)' = {r} /\ subs'[r].expires = until[r]
    BY <1>2 DEF Active, TypeOK
  <2>2. ASSUME NEW v \in User, v # u PROVE LastExpiry(v)' = LastExpiry(v)
    <3>1. Active(v)' = Active(v) /\ r \notin Active(v)
      BY <1>2, <2>2 DEF Active, TypeOK
    <3>2. \A i \in Active(v) : subs'[i].expires = subs[i].expires
      BY <1>2, <3>1 DEF Active, TypeOK
    <3> QED
      BY <3>1, <3>2, SameLastExpiry
  <2> QED
    BY <1>1, <2>1, <2>2, LastExpiryWillBe DEF Ends
<1>3. ASSUME NEW i \in Active(u), subs' = [subs EXCEPT ![i].expires = until[r]]
      PROVE  Ends' = [Ends EXCEPT ![u] = until[r]]
  <2>1. Active(u) = {i} /\ i \in Req /\ subs[i] \in SubRow /\ subs[i].user = u
    BY DEF OneActiveSubscription, Active, TypeOK
  <2>2. subs' = [subs EXCEPT ![i] = [subs[i] EXCEPT !.expires = until[r]]]
    BY <1>3
  <2>3. Active(u)' = {i} /\ subs'[i].expires = until[r]
    BY <2>1, <2>2 DEF Active, TypeOK
  <2>4. ASSUME NEW v \in User, v # u PROVE LastExpiry(v)' = LastExpiry(v)
    <3>1. Active(v)' = Active(v) /\ i \notin Active(v)
      BY <2>1, <2>2, <2>4 DEF Active, TypeOK
    <3>2. \A j \in Active(v) : subs'[j].expires = subs[j].expires
      BY <2>2, <3>1 DEF Active, TypeOK
    <3> QED
      BY <3>1, <3>2, SameLastExpiry
  <2> QED
    BY <2>3, <2>4, LastExpiryWillBe DEF Ends
<1> QED
  BY <1>1, <1>2, <1>3, SubscriptionWrites

LEMMA SuccessSettlesPlan ==
  ASSUME IInv, TypeOK', SerialInv, ExactInv, NEW r \in Req, WebhookCommit(r),
         req[r].out = "SUCCESS", Kind[req[r].pay] = "SUBSCRIPTION"
  PROVE  Account!SettlePlan(req[r].pay)
<1> USE DEF SerialInv
<1>1. PICK p \in Payment : p = req[r].pay
  BY WebhookSettles
<1>2. granted' = granted \cup {<<r, p>>} /\ UNCHANGED <<now, ver>>
  BY <1>1 DEF WebhookCommit
<1>3. p \notin Settled
  BY <1>1, WebhookWrites DEF Settled, GrantedIsTerminal
<1>4. Settled' = Settled \cup {p}
  BY <1>2 DEF Settled
<1>5. PICK u \in User : u = Owner[p]
  BY CheckoutAssumption
<1>6. Ends[u] = LastExpiry(u)
  BY DEF Ends
<1>7. \E start \in {Ends[u]} \cup (Ends[u] .. now) : Ends' = [Ends EXCEPT ![u] = start + Days[p]]
  BY <1>1, <1>5, <1>6, PlanWrites, PlanEnds
<1>8. Account!Settle(p)
  BY <1>1, WebhookSettles DEF Account!Settle
<1> QED
  BY <1>1, <1>2, <1>3, <1>4, <1>5, <1>7, <1>8, SameReviews DEF Account!SettlePlan

LEMMA RefundPaysBack ==
  ASSUME IInv, SeenStands, NEW r \in Req, RefundCommit(r)
  PROVE  req[r].pay \in Payment /\ Account!PayBack(req[r].pay)
<1>1. UNCHANGED <<now, subs, ver, granted>>
  BY DEF RefundCommit
<1> QED
  BY <1>1, RefundWrites, SameEnds, SameReviews, SameGrants DEF Account!PayBack

LEMMA ReviewDecides ==
  ASSUME IInv, ExactInv, NEW r \in Req, ReviewCommit(r)
  PROVE  req[r].pay \in Payment /\ (Account!Approve(req[r].pay) \/ Account!Reject(req[r].pay))
<1> USE DEF IInv
<1>1. pc[r] = "ready" /\ req[r].op = "review" /\ UNCHANGED <<now, payment, subs, granted>>
  BY DEF ReviewCommit
<1>2. PICK p \in Payment : p = req[r].pay
  BY <1>1, NamesPayment DEF PayOp
<1>3. StillDecided(r) /\ req[r].out \in Decision /\ staged[r] \in {"NONE", req[r].out}
      /\ ver[p].status # "NONE"
  BY <1>1, <1>2 DEF ExactInv, Exact, InWork, RequestOK, StagedFits, TargetExists
<1>4. \A q \in Payment :
        /\ ver'[q].status = IF q = p THEN req[r].out ELSE ver[q].status
        /\ ver'[q].expires = IF q = p /\ req[r].out = "VERIFIED" THEN until[r] ELSE ver[q].expires
  BY <1>2, <1>3 DEF ReviewCommit, StillDecided, TypeOK
<1>5. Review' = [Review EXCEPT ![p] = req[r].out] /\ Review[p] # "NONE"
  BY <1>3, <1>4 DEF Review
<1>6. CASE req[r].out = "VERIFIED"
  <2>1. Due' = [Due EXCEPT ![p] = until[r]]
    BY <1>4, <1>6 DEF Due
  <2>2. PICK start \in 0 .. now : until[r] = start + Validity
    <3>1. Validity \in Nat /\ until[r] \in Nat /\ now \in Nat
      BY BillingLoadAssumption DEF TypeOK
    <3>2. until[r] - Validity \in 0 .. now /\ until[r] = (until[r] - Validity) + Validity
      BY <1>3, <3>1 DEF StillDecided
    <3> QED
      BY <3>2
  <2>3. Account!Approve(p)
    BY <1>1, <1>5, <1>6, <2>1, <2>2, SameEnds, SameGrants DEF Account!Approve
  <2> QED
    BY <1>2, <2>3
<1>7. CASE req[r].out = "REJECTED"
  <2>1. Due' = Due
    BY <1>4, <1>7 DEF Due
  <2>2. Account!Reject(p)
    BY <1>1, <1>5, <1>7, <2>1, SameEnds, SameGrants DEF Account!Reject
  <2> QED
    BY <1>2, <2>2
<1> QED
  BY <1>3, <1>6, <1>7

LEMMA ExpiryLapses ==
  ASSUME IInv, ExactInv, OneActiveSubscription, NEW r \in Req, ExpireCommit(r)
  PROVE  (\E U \in SUBSET User : Account!LapsePlans(U)) \/ (\E P \in SUBSET Payment : Account!LapseReviews(P))
<1> USE DEF IInv
<1>1. /\ StillOver(r) /\ OneTable(r)
      /\ subs' = [i \in Req |-> IF i \in rows[r] THEN [subs[i] EXCEPT !.status = "EXPIRED"] ELSE subs[i]]
      /\ ver' = [p \in Payment |-> IF p \in rows[r] THEN [ver[p] EXCEPT !.status = "EXPIRED"] ELSE ver[p]]
      /\ UNCHANGED <<now, payment, granted>>
  BY DEF ExpireCommit, ExactInv, Exact, InWork
<1>2. Settled' = Settled
  BY <1>1, SameGrants
<1>3. CASE rows[r] \subseteq Req
  <2>1. \A i \in rows[r] : i \in Req /\ subs[i] \in SubRow /\ subs[i].status = "ACTIVE" /\ subs[i].expires < now
    BY <1>1, <1>3, KeyAssumption DEF StillOver, Over, TypeOK
  <2>2. ver' = ver
    BY <1>1, <1>3, KeyAssumption DEF TypeOK
  <2>3. PICK U \in SUBSET User : U = {u \in User : \E i \in rows[r] : subs[i].user = u}
    OBVIOUS
  <2>4. ASSUME NEW u \in U PROVE Ends[u] < now /\ Ends'[u] = 0
    <3>1. PICK i \in rows[r] : subs[i].user = u
      BY <2>3
    <3>2. Active(u) = {i}
      BY <2>1, <3>1 DEF OneActiveSubscription, Active
    <3>3. LastExpiry(u) = subs[i].expires
      BY <3>2, LastExpiryIs
    <3>4. Active(u)' = {}
      <4>1. ASSUME NEW j \in Req, j # i PROVE j \notin Active(u)'
        <5>1. j \notin Active(u)
          BY <3>2, <4>1
        <5> QED
          BY <1>1, <2>1, <5>1 DEF Active
      <4>2. i \notin Active(u)'
        BY <1>1, <2>1 DEF Active
      <4> QED
        BY <4>1, <4>2 DEF Active
    <3> QED
      BY <2>1, <3>3, <3>4, NoLastExpiry DEF Ends
  <2>5. ASSUME NEW u \in User \ U PROVE Ends'[u] = Ends[u]
    <3>1. \A i \in rows[r] : subs[i].user # u
      BY <2>3
    <3>2. \A i \in Req \ rows[r] : subs'[i] = subs[i]
      BY <1>1
    <3>3. \A i \in rows[r] : i \notin Active(u) /\ i \notin Active(u)'
      BY <1>1, <2>1, <3>1 DEF Active
    <3>4. Active(u)' = Active(u)
      BY <3>2, <3>3 DEF Active
    <3>5. \A i \in Active(u) : subs'[i].expires = subs[i].expires
      BY <3>2, <3>3 DEF Active
    <3> QED
      BY <3>4, <3>5, SameLastExpiry DEF Ends
  <2>6. Ends' = [u \in User |-> IF u \in U THEN 0 ELSE Ends[u]]
    BY <2>4, <2>5 DEF Ends
  <2> QED
    BY <1>1, <1>2, <2>2, <2>4, <2>6, SameReviews DEF Account!LapsePlans
<1>4. CASE rows[r] \subseteq Payment
  <2>1. \A p \in rows[r] : p \in Payment /\ ver[p].status = "VERIFIED" /\ ver[p].expires < now
    BY <1>1, <1>4, KeyAssumption DEF StillOver, Over
  <2>2. subs' = subs
    BY <1>1, <1>4, KeyAssumption DEF TypeOK
  <2>3. \A p \in Payment : /\ ver'[p].expires = ver[p].expires
                           /\ ver'[p].status = IF p \in rows[r] THEN "EXPIRED" ELSE ver[p].status
    BY <1>1 DEF TypeOK
  <2>4. Due' = Due
    BY <2>3 DEF Due
  <2>5. Review' = [p \in Payment |-> IF p \in rows[r] THEN "EXPIRED" ELSE Review[p]]
    BY <2>3 DEF Review
  <2>6. \A p \in rows[r] : Review[p] = "VERIFIED" /\ Due[p] < now
    BY <2>1 DEF Review, Due
  <2>7. Account!LapseReviews(rows[r])
    BY <1>1, <1>2, <2>2, <2>4, <2>5, <2>6, SameEnds DEF Account!LapseReviews
  <2> QED
    BY <1>4, <2>7
<1> QED
  BY <1>1, <1>3, <1>4 DEF OneTable

LEMMA LedgerStep ==
  ASSUME IInv, TypeOK', SerialInv, ExactInv, [Next]_vars
  PROVE  Account!LNext \/ UNCHANGED <<now, payment, Settled, Ends, Review, Due>>
<1> USE DEF SerialInv
<1>1. ASSUME UNCHANGED <<now, tables>>
      PROVE  UNCHANGED <<now, payment, Settled, Ends, Review, Due>>
  BY <1>1, SameEnds, SameReviews, SameGrants DEF tables
<1>2. CASE UNCHANGED vars
  BY <1>1, <1>2 DEF vars, tables
<1>3. CASE Tick
  <2>1. Account!NextDay
    BY <1>3, SameEnds, SameReviews, SameGrants DEF Tick, tables, Account!NextDay
  <2> QED
    BY <2>1 DEF Account!LNext
<1>4. ASSUME NEW p \in Payment, Checkout(p) PROVE Account!LNext
  BY <1>4, CheckoutOrders DEF Account!LNext
<1>5. ASSUME NEW r \in Req, Step(r)
      PROVE  Account!LNext \/ UNCHANGED <<now, payment, Settled, Ends, Review, Due>>
  <2>1. CASE UNCHANGED tables
    BY <1>1, <1>5, <2>1, OneMoves DEF IInv
  <2>2. CASE WebhookCommit(r)
    <3>1. req[r].pay \in Payment
      BY <2>2, WebhookSettles
    <3>2. \/ req[r].out = "SUCCESS" /\ Kind[req[r].pay] = "SUBSCRIPTION"
          \/ req[r].out = "SUCCESS" /\ Kind[req[r].pay] = "JOB_VERIFICATION"
          \/ req[r].out = "FAILED"
      BY <2>2 DEF WebhookCommit
    <3> QED
      BY <2>2, <3>1, <3>2, SuccessSettlesPlan, SuccessSettlesVerification, FailureBounces
         DEF Account!LNext
  <2>3. CASE RefundCommit(r)
    BY <2>3, RefundPaysBack DEF Account!LNext
  <2>4. CASE ReviewCommit(r)
    BY <2>4, ReviewDecides DEF Account!LNext
  <2>5. CASE ExpireCommit(r)
    BY <2>5, ExpiryLapses DEF Account!LNext
  <2> QED
    BY <1>5, <2>1, <2>2, <2>3, <2>4, <2>5, WhoWrites
<1> QED
  BY <1>2, <1>3, <1>4, <1>5, NextIsStep DEF Background

LEMMA LedgerInit == Init => Account!LInit
<1> SUFFICES ASSUME Init PROVE Account!LInit
  OBVIOUS
<1>1. \A u \in User : Active(u) = {}
  BY DEF Init, Active
<1>2. ASSUME NEW u \in User PROVE LastExpiry(u) = 0
  <2>1. {subs[i].expires : i \in Active(u)} \cup {0} = {0}
    BY <1>1
  <2>2. Max({0}) = 0
    BY MaxIs
  <2> QED
    BY <2>1, <2>2 DEF LastExpiry
<1> QED
  BY <1>2 DEF Init, Account!LInit, Settled, Ends, Review, Due

\* Served one at a time, every step of Billing is an atomic step of Ledger,
\* or none: settlements deliver in the same step, plans add exactly their
\* days, and nothing lapses before it is over.
THEOREM LedgerKept == MaxInFlight = 1 => (Spec => ImplementsLedger)
<1> SUFFICES ASSUME MaxInFlight = 1 PROVE Spec => ImplementsLedger
  OBVIOUS
<1>1. IInv /\ TypeOK' /\ SerialInv /\ ExactInv /\ [Next]_vars
        => [Account!LNext]_<<now, payment, Settled, Ends, Review, Due>>
  BY LedgerStep
<1>2. Spec => Account!LInit /\ [][Account!LNext]_<<now, payment, Settled, Ends, Review, Due>>
  BY <1>1, LedgerInit, Invariant, TypeCorrect, SerialInvariant, ExactInvariant, PTL DEF Spec
<1> QED
  BY <1>2 DEF ImplementsLedger, Account!LSpec, Account!lvars

=============================================================================
