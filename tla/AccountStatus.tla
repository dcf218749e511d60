--------------------------- MODULE AccountStatus ---------------------------
(***************************************************************************)
(* The part of a row of the users table that gates requests, as values:    *)
(* the account_status column and the two facts kept beside it, is_banned   *)
(* and deleted_at IS NOT NULL.  The three are written independently, so    *)
(* they can disagree: restoring an account that was banned and deleted     *)
(* leaves status ACTIVE with is_banned still set.                          *)
(***************************************************************************)

Status == {"PENDING", "ACTIVE", "SUSPENDED", "BANNED", "DELETED"}

Account == [status : Status, banned : BOOLEAN, deleted : BOOLEAN]

\* A registered user who has completed a profile (ProfileService.create).
ActiveAccount == [status |-> "ACTIVE", banned |-> FALSE, deleted |-> FALSE]

IsDeleted(a) == a.deleted \/ a.status = "DELETED"
IsBanned(a)  == a.banned  \/ a.status = "BANNED"

(***************************************************************************)
(* get_current_user: a deleted or banned account is refused, a suspended   *)
(* one is not.                                                             *)
(***************************************************************************)
CanCall(a) == ~IsDeleted(a) /\ ~IsBanned(a)

\* Fault: trusts the status column alone.
FaultCanBeSwiped(a) == a.status = "ACTIVE"

(***************************************************************************)
(* The account checks SwipeService makes on the target of a swipe.         *)
(***************************************************************************)
CanBeSwiped(a) == ~IsDeleted(a) /\ ~IsBanned(a) /\ a.status = "ACTIVE"

-----------------------------------------------------------------------------
(***************************************************************************)
(* The operations of AdminUserService on an ordinary user's account, and   *)
(* ProfileService.delete_account, which writes what delete_user writes.    *)
(***************************************************************************)
AccountOps == {"suspend", "ban", "unban", "delete", "restore"}

\* The one guard on the account itself: a DELETED account is not suspended.
Permits(op, a) == op = "suspend" => a.status # "DELETED"

After(op, a) ==
  CASE op = "suspend" -> [a EXCEPT !.status = "SUSPENDED"]
    [] op = "ban"     -> [a EXCEPT !.status = "BANNED",  !.banned = TRUE]
    [] op = "unban"   -> [a EXCEPT !.status = "ACTIVE",  !.banned = FALSE]
    [] op = "delete"  -> [a EXCEPT !.status = "DELETED", !.deleted = TRUE]
    [] op = "restore" -> [a EXCEPT !.status = "ACTIVE",  !.deleted = FALSE]

=============================================================================
