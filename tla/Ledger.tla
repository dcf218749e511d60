------------------------------- MODULE Ledger -------------------------------
(***************************************************************************)
(* What the billing services promise a customer, with every operation      *)
(* atomic: a payment settles once, and in that very step what was paid for *)
(* is delivered; a plan adds exactly its own days, counted from where the  *)
(* running subscription ends, or from a day that is not in the future when *)
(* nothing is running; money goes back only for a settled payment; nothing *)
(* lapses before it is over.                                               *)
(*                                                                         *)
(* A day may pass between the moment a renewal or a review is computed and *)
(* the moment it is recorded, so both may count from an earlier day.       *)
(***************************************************************************)
EXTENDS Integers

CONSTANTS User, Payment, Owner, Kind, Days, Validity

VARIABLES
  day,
  status,   \* of each payment, "NONE" before it is ordered
  settled,  \* the payments whose plans have been granted
  ends,     \* the day each user's running subscription ends, 0 when none is
  review,   \* status of each verification
  due       \* the day it expires

lvars == <<day, status, settled, ends, review, due>>

LInit ==
  /\ day = 0
  /\ status = [p \in Payment |-> "NONE"]
  /\ settled = {}
  /\ ends = [u \in User |-> 0]
  /\ review = [p \in Payment |-> "NONE"]
  /\ due = [p \in Payment |-> 0]

NextDay ==
  /\ day' = day + 1
  /\ UNCHANGED <<status, settled, ends, review, due>>

Order(p) ==
  /\ status[p] = "NONE"
  /\ status' = [status EXCEPT ![p] = "PENDING"]
  /\ review' = IF Kind[p] = "JOB_VERIFICATION"
               THEN [review EXCEPT ![p] = "PENDING_PAYMENT"] ELSE review
  /\ UNCHANGED <<day, settled, ends, due>>

Bounce(p) ==
  /\ status[p] = "PENDING"
  /\ status' = [status EXCEPT ![p] = "FAILED"]
  /\ UNCHANGED <<day, settled, ends, review, due>>

Settle(p) ==
  /\ status[p] \in {"PENDING", "FAILED"}
  /\ status' = [status EXCEPT ![p] = "SUCCESS"]

\* A subscription is paid for: its user gets the days of the plan.
SettlePlan(p) ==
  /\ Settle(p)
  /\ Kind[p] = "SUBSCRIPTION" /\ p \notin settled
  /\ settled' = settled \cup {p}
  /\ \E start \in {ends[Owner[p]]} \cup (ends[Owner[p]] .. day) :
       ends' = [ends EXCEPT ![Owner[p]] = start + Days[p]]
  /\ UNCHANGED <<day, review, due>>

\* A verification is paid for: it comes before a reviewer, unless one has
\* decided already.
SettleVerification(p) ==
  /\ Settle(p)
  /\ Kind[p] = "JOB_VERIFICATION"
  /\ review' = [review EXCEPT ![p] = IF @ = "PENDING_PAYMENT" THEN "UNDER_REVIEW" ELSE @]
  /\ UNCHANGED <<day, settled, ends, due>>

PayBack(p) ==
  /\ status[p] = "SUCCESS"
  /\ status' = [status EXCEPT ![p] = "REFUNDED"]
  /\ UNCHANGED <<day, settled, ends, review, due>>

Approve(p) ==
  /\ review[p] # "NONE"
  /\ review' = [review EXCEPT ![p] = "VERIFIED"]
  /\ \E start \in 0 .. day : due' = [due EXCEPT ![p] = start + Validity]
  /\ UNCHANGED <<day, status, settled, ends>>

Reject(p) ==
  /\ review[p] # "NONE"
  /\ review' = [review EXCEPT ![p] = "REJECTED"]
  /\ UNCHANGED <<day, status, settled, ends, due>>

\* Subscriptions that are over end, for any number of users at once.
LapsePlans(U) ==
  /\ \A u \in U : ends[u] < day
  /\ ends' = [u \in User |-> IF u \in U THEN 0 ELSE ends[u]]
  /\ UNCHANGED <<day, status, settled, review, due>>

\* So do approvals.
LapseReviews(P) ==
  /\ \A p \in P : review[p] = "VERIFIED" /\ due[p] < day
  /\ review' = [p \in Payment |-> IF p \in P THEN "EXPIRED" ELSE review[p]]
  /\ UNCHANGED <<day, status, settled, ends, due>>

LNext ==
  \/ NextDay
  \/ \E p \in Payment :
       \/ Order(p) \/ Bounce(p) \/ SettlePlan(p) \/ SettleVerification(p)
       \/ PayBack(p) \/ Approve(p) \/ Reject(p)
  \/ \E U \in SUBSET User : LapsePlans(U)
  \/ \E P \in SUBSET Payment : LapseReviews(P)

LSpec == LInit /\ [][LNext]_lvars

=============================================================================
