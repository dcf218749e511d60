----------------------------- MODULE MCMessaging -----------------------------
(***************************************************************************)
(* Constants for model-checking Messaging.                                 *)
(***************************************************************************)
EXTENDS Messaging, TLC

CONSTANTS r1, r2, r3, m1, m2, m3, m4

MCTwo  == {1, 2}
MCReq3 == {r1, r2, r3}
MCMsg4 == {m1, m2, m3, m4}

\* One kind of like is enough to make a match.
LikeOnly == {"LIKE"}
MCOps    == {"swipe", "block", "unmatch"}
AllMsg   == {"start", "send", "mark_read"}

Symmetry34 == Permutations(MCReq3) \cup Permutations(MCMsg4)
=============================================================================
