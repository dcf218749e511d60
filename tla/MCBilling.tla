------------------------------ MODULE MCBilling ------------------------------
(***************************************************************************)
(* Constants for model-checking Billing: one user who buys a subscription  *)
(* of one day, one of two days and a job verification.                     *)
(***************************************************************************)
EXTENDS Billing, TLC

CONSTANTS u1, p1, p2, p3, r1, r2, r3

MCUser  == {u1}
MCSubs  == {p1, p2}
MCPayment == {p1, p2, p3}
MCMixed == {p1, p3}
MCOwner == [p \in Payment |-> u1]
MCKind  == [p \in Payment |-> IF p = p3 THEN "JOB_VERIFICATION" ELSE "SUBSCRIPTION"]
MCDays  == [p \in Payment |-> IF p = p2 THEN 2 ELSE 1]
MCReq3  == {r1, r2, r3}

Symmetry3 == Permutations(MCReq3)

SubOps == {"webhook", "refund", "expire_subscriptions"}
LiveOps == AllOps \ {"deferred"}
=============================================================================
