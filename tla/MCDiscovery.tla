----------------------------- MODULE MCDiscovery -----------------------------
(***************************************************************************)
(* Constants for model-checking Discovery.                                 *)
(***************************************************************************)
EXTENDS Discovery, TLC

CONSTANTS r1, r2, r3, r4

MCTwo == {1, 2}

MCReq3 == {r1, r2, r3}
MCReq4 == {r1, r2, r3, r4}

Symmetry3 == Permutations(MCReq3)
Symmetry4 == Permutations(MCReq4)

\* Every request but those on accounts.
PairOps == {"swipe", "block", "unblock", "unmatch"}
=============================================================================
