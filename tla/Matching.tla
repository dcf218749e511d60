------------------------------ MODULE Matching ------------------------------
(***************************************************************************)
(* What the discovery service promises about likes and matches, with every *)
(* operation atomic: a like is kept for ever; a match can only be born in  *)
(* the very step that records the like that made the interest mutual, and  *)
(* at most once in the life of a pair; a match that has ended never starts *)
(* again.                                                                  *)
(*                                                                         *)
(* A mutual like is not obliged to produce a match: LikeInVain is allowed  *)
(* whether or not the like is returned, because the implementation can     *)
(* miss a like that is being committed at the same time.                   *)
(***************************************************************************)
EXTENDS Integers

CONSTANT User

VARIABLES
  likes,    \* pairs <<a, b>>: a has liked b
  status    \* of the match of a pair, "NONE" when there never was one

Pair(a, b) == IF a < b THEN <<a, b>> ELSE <<b, a>>

MInit ==
  /\ likes = {}
  /\ status = [p \in User \X User |-> "NONE"]

LikeInVain(a, b) ==
  /\ a # b
  /\ likes' = likes \cup {<<a, b>>}
  /\ UNCHANGED status

LikeBack(a, b) ==
  /\ a # b
  /\ <<b, a>> \in likes
  /\ status[Pair(a, b)] = "NONE"
  /\ likes' = likes \cup {<<a, b>>}
  /\ status' = [status EXCEPT ![Pair(a, b)] = "ACTIVE"]

EndMatch(a, b, s) ==
  /\ status[Pair(a, b)] # "NONE"
  /\ s \in {"UNMATCHED", "BLOCKED"}
  /\ status' = [status EXCEPT ![Pair(a, b)] = s]
  /\ UNCHANGED likes

MNext ==
  \E a, b \in User :
    \/ LikeInVain(a, b)
    \/ LikeBack(a, b)
    \/ \E s \in {"UNMATCHED", "BLOCKED"} : EndMatch(a, b, s)

MSpec == MInit /\ [][MNext]_<<likes, status>>

=============================================================================
