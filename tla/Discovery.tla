----------------------------- MODULE Discovery -----------------------------
(***************************************************************************)
(* Swipes, matches and blocks.                                             *)
(*                                                                         *)
(* Every HTTP request runs one database transaction: the router calls the  *)
(* service and then session.commit(); any exception leaves without a       *)
(* commit, which rolls the transaction back.  The engine sets no isolation *)
(* level, so PostgreSQL runs READ COMMITTED: each statement reads what is  *)
(* committed when it starts, plus the transaction's own writes.  A request *)
(* is therefore a sequence of steps between which other requests commit.   *)
(* Of the writes that are flushed but not committed, other transactions    *)
(* see only the locks: inserting a unique key or updating a row that       *)
(* another open transaction has written waits for that transaction to end. *)
(*                                                                         *)
(* account, swipes, blocks, match and inbox are the committed tables;      *)
(* req, pc, loaded and staged belong to the requests.  A member of Req is  *)
(* one request and is used once.                                           *)
(***************************************************************************)
EXTENDS Integers, FiniteSets, AccountStatus

CONSTANTS
  User,         \* user ids, which the code compares with < and >
  Req,          \* the requests that may arrive
  Ops,          \* the kinds of request that may arrive
  Actions,      \* the swipe actions they may ask for
  MaxInFlight   \* how many requests the servers work on at the same time

SwipeAction == {"LIKE", "SUPER_LIKE", "PASS"}
Like        == {"LIKE", "SUPER_LIKE"}
MatchStatus == {"NONE", "ACTIVE", "UNMATCHED", "BLOCKED"}
AllOps      == {"swipe", "block", "unblock", "unmatch"} \cup AccountOps

ASSUME UserAssumption    == User \subseteq Int
ASSUME RequestAssumption == Ops \subseteq AllOps /\ Actions \subseteq SwipeAction
ASSUME LoadAssumption    == MaxInFlight \in Nat \ {0}

VARIABLES
  account,  \* users: the columns that gate requests
  swipes,   \* rows <<from, to, action>> of swipes (unique on all three)
  blocks,   \* rows <<blocker, blocked>> of blocks (unique)
  match,    \* status of the row of matches keyed by <<user1, user2>>, or "NONE"
  inbox,    \* rows <<creating request, recipient, type>> of notifications
  req,      \* what each request asks for
  pc,       \* how far each request has come
  loaded,   \* the match status a request has read into its session
  staged    \* the match status it has flushed and not yet committed, or "NONE"

tables == <<account, swipes, blocks, match, inbox>>
vars   == <<account, swipes, blocks, match, inbox, req, pc, loaded, staged>>

Request   == [op : AllOps, me : User, other : User, action : SwipeAction]
NoRequest == [op |-> "none"]

\* In a transaction: "checked" .. "ready".  Answered: the last five.
Open     == {"checked", "flushed", "read", "ready"}
Answered == {"committed", "rejected", "integrity", "failed"}

Init ==
  /\ account = [u \in User |-> ActiveAccount]
  /\ swipes = {}
  /\ blocks = {}
  /\ match = [p \in User \X User |-> "NONE"]
  /\ inbox = {}
  /\ req = [r \in Req |-> NoRequest]
  /\ pc = [r \in Req |-> "new"]
  /\ loaded = [r \in Req |-> "NONE"]
  /\ staged = [r \in Req |-> "NONE"]

-----------------------------------------------------------------------------
(***************************************************************************)
(* Queries.                                                                *)
(***************************************************************************)

\* MatchRepository.normalize: the smaller id is user1.
Normalize(a, b) == IF a < b THEN <<a, b>> ELSE <<b, a>>

PairOf(r) == Normalize(req[r].me, req[r].other)

\* liked_by and mutual_like_exists, two spellings of one query.
Liked(a, b) == \E x \in Like : <<a, b, x>> \in swipes

\* Fault: forgets that the other may have blocked me.
FaultBlockedOneWay(a, b) == <<a, b>> \in blocks

\* The two get_pair queries of _assert_can_interact.
BlockedEitherWay(a, b) == <<a, b>> \in blocks \/ <<b, a>> \in blocks

\* Only a like can be a duplicate, of a like of either kind.
DuplicateLike(a, b, x) == x \in Like /\ Liked(a, b)

\* Faults: a pass returns a like too; a super-like does not return one.
FaultMutualPass(r)     == Liked(req[r].other, req[r].me)
FaultMutualLikeOnly(r) == req[r].action = "LIKE" /\ Liked(req[r].other, req[r].me)

\* The swipe of request r returns a like.
Mutual(r) == req[r].action \in Like /\ Liked(req[r].other, req[r].me)

\* Fault: a rollback keeps the row lock.
FaultMatchLocked(r) ==
  \E q \in Req \ {r} :
    pc[q] \in Open \cup {"failed"} /\ staged[q] # "NONE" /\ PairOf(q) = PairOf(r)

\* Another open transaction has written the match row of r's pair.
MatchLocked(r) ==
  \E q \in Req \ {r} :
    pc[q] \in Open /\ staged[q] # "NONE" /\ PairOf(q) = PairOf(r)

\* The unique key of the row a request inserts or deletes.
Table(op) == IF op = "swipe" THEN "swipes"
             ELSE IF op \in {"block", "unblock"} THEN "blocks" ELSE "matches"
Key(q)    == <<Table(q.op), q.me, q.other, q.action>>

\* Another open transaction has inserted or deleted a row with that key.
KeyLocked(r, q) ==
  \E o \in Req \ {r} : pc[o] \in {"flushed", "read", "ready"} /\ Key(req[o]) = Key(q)

\* There is a worker free to take a request.
Admit(r, op) ==
  /\ pc[r] = "new"
  /\ op \in Ops
  /\ Cardinality({q \in Req : pc[q] \in Open}) < MaxInFlight

\* Request r asks for q and reaches step s.
Begin(r, q, s) ==
  /\ req' = [req EXCEPT ![r] = q]
  /\ pc' = [pc EXCEPT ![r] = s]

Go(r, s) == pc' = [pc EXCEPT ![r] = s]

-----------------------------------------------------------------------------
(***************************************************************************)
(* POST /swipes.                                                           *)
(***************************************************************************)

\* Authentication, _assert_can_interact and the duplicate-like check; the
\* early returns answer the request.
MaySwipe(a, b, x) ==
  /\ CanCall(account[a])
  /\ a # b
  /\ CanBeSwiped(account[b])
  /\ ~BlockedEitherWay(a, b)
  /\ ~DuplicateLike(a, b, x)

SwipeCheck(r, a, b, x) ==
  /\ Admit(r, "swipe")
  /\ Begin(r, [op |-> "swipe", me |-> a, other |-> b, action |-> x],
           IF MaySwipe(a, b, x) THEN "checked" ELSE "rejected")
  /\ UNCHANGED <<tables, loaded, staged>>

\* swipes.create: the INSERT waits for an open one with the same key, and
\* fails when a committed row has it.
SwipeInsert(r) ==
  LET q == req[r] IN
  /\ pc[r] = "checked" /\ q.op = "swipe"
  /\ ~KeyLocked(r, q)
  /\ Go(r, IF <<q.me, q.other, q.action>> \in swipes THEN "integrity" ELSE "flushed")
  /\ UNCHANGED <<tables, req, loaded, staged>>

\* mutual_like_exists, then get_active_between.
SwipeRead(r) ==
  /\ pc[r] = "flushed" /\ req[r].op = "swipe"
  /\ loaded' = [loaded EXCEPT ![r] = IF Mutual(r) THEN match[PairOf(r)] ELSE "NONE"]
  /\ Go(r, IF ~Mutual(r) THEN "ready"
           ELSE IF match[PairOf(r)] = "ACTIVE" THEN "rejected"
           ELSE "read")
  /\ UNCHANGED <<tables, req, staged>>

\* Fault: no unique pair.
FaultMatchInsertable(p) == p[1] < p[2]

\* create_between: the table has at most one row per pair, user1 < user2.
MatchInsertable(p) == match[p] = "NONE" /\ p[1] < p[2]

SwipeInsertMatch(r) ==
  /\ pc[r] = "read" /\ req[r].op = "swipe"
  /\ ~MatchLocked(r)
  /\ \/ /\ MatchInsertable(PairOf(r))
        /\ staged' = [staged EXCEPT ![r] = "ACTIVE"]
        /\ Go(r, "ready")
     \/ /\ ~MatchInsertable(PairOf(r))
        /\ Go(r, "integrity")
        /\ UNCHANGED staged
  /\ UNCHANGED <<tables, req, loaded>>

\* The match row as it will be once r commits.
MatchAfter(r) ==
  IF staged[r] = "NONE" THEN match ELSE [match EXCEPT ![PairOf(r)] = staged[r]]

\* Fault: announces a like as a message.
FaultNotices(r) == {<<r, req[r].other, "NEW_MESSAGE">>}

\* Both are told of a match; otherwise only the liked user, of a like.
Notices(r) ==
  LET q == req[r] IN
  IF staged[r] = "ACTIVE" THEN {<<r, u, "NEW_MATCH">> : u \in {q.me, q.other}}
  ELSE IF q.action \in Like THEN {<<r, q.other, "NEW_LIKE">>}
  ELSE {}

SwipeCommit(r) ==
  LET q == req[r] IN
  /\ pc[r] = "ready" /\ q.op = "swipe"
  /\ swipes' = swipes \cup {<<q.me, q.other, q.action>>}
  /\ match' = MatchAfter(r)
  /\ inbox' = inbox \cup Notices(r)
  /\ Go(r, "committed")
  /\ UNCHANGED <<account, blocks, req, loaded, staged>>

-----------------------------------------------------------------------------
(***************************************************************************)
(* POST and DELETE /blocks/{user_id}.                                      *)
(***************************************************************************)
BlockCheck(r, a, b) ==
  /\ Admit(r, "block")
  /\ Begin(r, [op |-> "block", me |-> a, other |-> b, action |-> "PASS"],
           IF CanCall(account[a]) /\ a # b /\ <<a, b>> \notin blocks
           THEN "checked" ELSE "rejected")
  /\ UNCHANGED <<tables, loaded, staged>>

BlockInsert(r) ==
  LET q == req[r] IN
  /\ pc[r] = "checked" /\ q.op = "block"
  /\ ~KeyLocked(r, q)
  /\ Go(r, IF <<q.me, q.other>> \in blocks THEN "integrity" ELSE "flushed")
  /\ UNCHANGED <<tables, req, loaded, staged>>

\* block_and_unmatch: get_active_between reads the committed row ...
BlockRead(r) ==
  /\ pc[r] = "flushed" /\ req[r].op = "block"
  /\ loaded' = [loaded EXCEPT ![r] = match[PairOf(r)]]
  /\ Go(r, IF match[PairOf(r)] = "ACTIVE" THEN "read" ELSE "ready")
  /\ UNCHANGED <<tables, req, staged>>

\* ... and the status set on it is written when the audit row is flushed:
\* an UPDATE by primary key, which waits for the row and does not look at
\* its status again.
BlockEndMatch(r) ==
  /\ pc[r] = "read" /\ req[r].op = "block"
  /\ ~MatchLocked(r)
  /\ staged' = [staged EXCEPT ![r] = "BLOCKED"]
  /\ Go(r, "ready")
  /\ UNCHANGED <<tables, req, loaded>>

BlockCommit(r) ==
  LET q == req[r] IN
  /\ pc[r] = "ready" /\ q.op = "block"
  /\ blocks' = blocks \cup {<<q.me, q.other>>}
  /\ match' = MatchAfter(r)
  /\ Go(r, "committed")
  /\ UNCHANGED <<account, swipes, inbox, req, loaded, staged>>

\* The row is read and deleted; nothing else in the code could change it in
\* between but another unblock, which ends in the same rows.
UnblockDelete(r, a, b) ==
  LET q == [op |-> "unblock", me |-> a, other |-> b, action |-> "PASS"] IN
  /\ Admit(r, "unblock")
  /\ ~KeyLocked(r, q)
  /\ Begin(r, q, IF CanCall(account[a]) /\ <<a, b>> \in blocks
                 THEN "ready" ELSE "rejected")
  /\ UNCHANGED <<tables, loaded, staged>>

UnblockCommit(r) ==
  /\ pc[r] = "ready" /\ req[r].op = "unblock"
  /\ blocks' = blocks \ {<<req[r].me, req[r].other>>}
  /\ Go(r, "committed")
  /\ UNCHANGED <<account, swipes, match, inbox, req, loaded, staged>>

-----------------------------------------------------------------------------
(***************************************************************************)
(* DELETE /matches/{match_id}, by one of the two users; b is the other.    *)
(***************************************************************************)

\* get_for_user reads the row by id, whatever its status.
UnmatchRead(r, a, b) ==
  /\ Admit(r, "unmatch")
  /\ Begin(r, [op |-> "unmatch", me |-> a, other |-> b, action |-> "PASS"],
           IF CanCall(account[a]) /\ match[Normalize(a, b)] # "NONE"
           THEN "read" ELSE "rejected")
  /\ loaded' = [loaded EXCEPT ![r] = match[Normalize(a, b)]]
  /\ UNCHANGED <<tables, staged>>

\* The ORM writes the columns that changed: not the status of a row that was
\* loaded as UNMATCHED.  The row lock of such an UPDATE, of unmatched_at alone,
\* is left out: it could only take interleavings away.
UnmatchWrite(r) ==
  /\ pc[r] = "read" /\ req[r].op = "unmatch"
  /\ ~MatchLocked(r)
  /\ staged' = [staged EXCEPT ![r] =
                  IF loaded[r] = "UNMATCHED" THEN "NONE" ELSE "UNMATCHED"]
  /\ Go(r, "ready")
  /\ UNCHANGED <<tables, req, loaded>>

UnmatchCommit(r) ==
  /\ pc[r] = "ready" /\ req[r].op = "unmatch"
  /\ match' = MatchAfter(r)
  /\ Go(r, "committed")
  /\ UNCHANGED <<account, swipes, blocks, inbox, req, loaded, staged>>

-----------------------------------------------------------------------------
(***************************************************************************)
(* An operation on u's account, in one step: no request here reads an      *)
(* account twice.                                                          *)
(***************************************************************************)
ChangeAccount(r, op, u) ==
  /\ Admit(r, op)
  /\ Permits(op, account[u])
  /\ Begin(r, [op |-> op, me |-> u, other |-> u, action |-> "PASS"], "committed")
  /\ account' = [account EXCEPT ![u] = After(op, @)]
  /\ UNCHANGED <<swipes, blocks, match, inbox, loaded, staged>>

\* The process dies, the connection is lost or a statement fails: the
\* database rolls the open transaction back.
Fail(r) ==
  /\ pc[r] \in Open
  /\ Go(r, "failed")
  /\ UNCHANGED <<tables, req, loaded, staged>>

-----------------------------------------------------------------------------
Arrive(r) ==
  \E a, b \in User :
    \/ \E x \in Actions : SwipeCheck(r, a, b, x)
    \/ BlockCheck(r, a, b)
    \/ UnblockDelete(r, a, b)
    \/ UnmatchRead(r, a, b)

Continue(r) ==
  \/ SwipeInsert(r) \/ SwipeRead(r) \/ SwipeInsertMatch(r) \/ SwipeCommit(r)
  \/ BlockInsert(r) \/ BlockRead(r) \/ BlockEndMatch(r) \/ BlockCommit(r)
  \/ UnblockCommit(r)
  \/ UnmatchWrite(r) \/ UnmatchCommit(r)

Next ==
  \E r \in Req :
    \/ Arrive(r)
    \/ Continue(r)
    \/ \E op \in AccountOps, u \in User : ChangeAccount(r, op, u)
    \/ Fail(r)

Spec == Init /\ [][Next]_vars

\* The event loop resumes a request whose statement has completed.
FairSpec == Spec /\ \A r \in Req : WF_vars(Continue(r))

-----------------------------------------------------------------------------
(***************************************************************************)
(* Properties that hold however requests interleave.                       *)
(***************************************************************************)

\* Tables and requests have their types.
TypeOK ==
  /\ account \in [User -> Account]
  /\ swipes \subseteq User \X User \X SwipeAction
  /\ blocks \subseteq User \X User
  /\ match \in [User \X User -> MatchStatus]
  /\ inbox \subseteq Req \X User \X {"NEW_MATCH", "NEW_LIKE"}
  /\ req \in [Req -> Request \cup {NoRequest}]
  /\ pc \in [Req -> {"new"} \cup Open \cup Answered]
  /\ loaded \in [Req -> MatchStatus]
  /\ staged \in [Req -> MatchStatus]

\* Nobody is matched, or was ever, without having liked the other and been
\* liked back, and the row is stored under the normalized pair: swipe()
\* relies on a like read before the commit that creates the match.
MatchNeedsMutualLikes ==
  \A a, b \in User :
    match[<<a, b>>] # "NONE" => a < b /\ Liked(a, b) /\ Liked(b, a)

\* A match that has ended never becomes active again and no match row is
\* lost, whatever stale status a concurrent request has loaded: unmatch and
\* block write only end states, and a second match hits the unique pair.
MatchNeverRevives ==
  [][\A p \in User \X User :
       match[p] # "NONE" => match'[p] = match[p] \/ match'[p] \in {"UNMATCHED", "BLOCKED"}]_vars

\* Each partner of a match has exactly one NEW_MATCH notification of it:
\* two requests never both create the match of a pair, and the
\* notifications commit with the row or not at all.
MatchAnnouncedOnce ==
  \A a, b \in User :
    match[<<a, b>>] # "NONE" =>
      \A u \in {a, b} :
        Cardinality({r \in Req : /\ <<r, u, "NEW_MATCH">> \in inbox
                                 /\ PairOf(r) = <<a, b>>}) = 1

\* Nobody waits for ever: the row and key locks the requests take in
\* different orders never form a cycle, so every request that was admitted
\* is answered.
RequestsAnswered ==
  \A r \in Req : pc[r] \in Open ~> pc[r] \in Answered

\* Discovery implements the abstract specification of matching.
Abstract == INSTANCE Matching WITH
  likes  <- {p \in User \X User : Liked(p[1], p[2])},
  status <- match

ImplementsMatching == Abstract!MSpec

-----------------------------------------------------------------------------
(***************************************************************************)
(* Properties the code has as long as requests are served one at a time    *)
(* (MaxInFlight = 1); requests that overlap break all of them.             *)
(***************************************************************************)

\* Two users who like each other have (or had) a match: the swipe that
\* completes the pair creates it.
MutualLikesMatch ==
  \A a, b \in User : Liked(a, b) /\ Liked(b, a) => match[Normalize(a, b)] # "NONE"

\* A block must also end any active match with that user.
BlockEndsMatch ==
  \A p \in blocks : match[Normalize(p[1], p[2])] # "ACTIVE"

\* A new match joins two accounts that are neither banned nor deleted, for
\* every order of suspensions, bans, unbans, deletions and restorations.
NewMatchPartnersReachable ==
  [][\A a, b \in User :
       match[<<a, b>>] = "NONE" /\ match'[<<a, b>>] = "ACTIVE"
         => CanCall(account[a]) /\ CanCall(account[b])]_vars

-----------------------------------------------------------------------------
(***************************************************************************)
(* The strengthening that makes MatchNeedsMutualLikes and                  *)
(* MatchNeverRevives inductive.  What a request read about its pair stays  *)
(* true until it commits, for two reasons: likes and match rows are never  *)
(* deleted, and a written match row is locked.                             *)
(***************************************************************************)

\* A request that has arrived asks for something; nobody swipes on himself.
Asked ==
  \A r \in Req :
    /\ pc[r] # "new" => req[r] \in Request
    /\ pc[r] \in Open /\ req[r].op = "swipe" => req[r].me # req[r].other

\* The match row is written last.
WritesLast ==
  \A r \in Req : pc[r] \in {"new", "checked", "flushed", "read"} => staged[r] = "NONE"

\* A swipe about to create a match has seen a committed like come back.
SwipeSawLike ==
  \A r \in Req :
    /\ req[r].op = "swipe"
    /\ pc[r] = "read" \/ (pc[r] = "ready" /\ staged[r] # "NONE")
    => Mutual(r)

\* A block or unmatch about to write has seen the row.
EnderSawRow ==
  \A r \in Req : pc[r] = "read" /\ req[r].op # "swipe" => match[PairOf(r)] # "NONE"

\* An uncommitted match row is either new or the end of one that exists.
StagedFits ==
  \A r \in Req :
    pc[r] = "ready" /\ staged[r] # "NONE" =>
      \/ req[r].op = "swipe" /\ staged[r] = "ACTIVE" /\ MatchInsertable(PairOf(r))
      \/ req[r].op # "swipe" /\ staged[r] \in {"UNMATCHED", "BLOCKED"}
           /\ match[PairOf(r)] # "NONE"

\* At most one open transaction has written the match row of a pair.
OneWriter ==
  \A q, r \in Req :
    /\ pc[q] = "ready" /\ staged[q] # "NONE"
    /\ pc[r] = "ready" /\ staged[r] # "NONE"
    /\ PairOf(q) = PairOf(r)
    => q = r

IInv ==
  /\ TypeOK /\ Asked /\ WritesLast /\ SwipeSawLike /\ EnderSawRow
  /\ StagedFits /\ OneWriter /\ MatchNeedsMutualLikes

-----------------------------------------------------------------------------
(***************************************************************************)
(* What makes MatchAnnouncedOnce inductive: the notifications and the row  *)
(* of a match have one author, the swipe that committed them.              *)
(***************************************************************************)

\* Request r has created the match of its pair.
Created(r) == pc[r] = "committed" /\ req[r].op = "swipe" /\ staged[r] = "ACTIVE"

\* Who has been told of a match was told by the request that created it.
ToldByCreator ==
  \A r \in Req, u \in User :
    <<r, u, "NEW_MATCH">> \in inbox <=> Created(r) /\ u \in {req[r].me, req[r].other}

\* There is a match row if a request has created it, and only one has.
OneCreator ==
  /\ \A p \in User \X User : match[p] # "NONE" => \E r \in Req : Created(r) /\ PairOf(r) = p
  /\ \A r \in Req : Created(r) => match[PairOf(r)] # "NONE"
  /\ \A q, r \in Req : Created(q) /\ Created(r) /\ PairOf(q) = PairOf(r) => q = r

AnnouncedInv == ToldByCreator /\ OneCreator

-----------------------------------------------------------------------------
(***************************************************************************)
(* What makes the properties of a serial load inductive.  There is never   *)
(* more than one open transaction (OneOpen, which Admit maintains), so     *)
(* what it has read is still true of the tables.                           *)
(***************************************************************************)
InWork == {r \in Req : pc[r] \in Open}

\* The servers are never loaded beyond their limit.
LoadBounded == IsFiniteSet(InWork) /\ Cardinality(InWork) <= MaxInFlight

OneOpen == \A q, r \in InWork : q = r

\* What SwipeCheck has seen of the two users.
StillMaySwipe(r) ==
  LET q == req[r] IN
  CanCall(account[q.me]) /\ CanBeSwiped(account[q.other]) /\ ~BlockedEitherWay(q.me, q.other)

\* A swipe that creates no match has seen no like come back.
CreatesIfMutual(r) == pc[r] = "ready" /\ Mutual(r) => staged[r] = "ACTIVE"

\* A block leaves no active match behind.
EndsIfActive(r) == pc[r] = "ready" /\ match[PairOf(r)] = "ACTIVE" => staged[r] # "NONE"

SeenStands ==
  \A r \in InWork :
    /\ req[r].op = "swipe" => StillMaySwipe(r) /\ CreatesIfMutual(r)
    /\ req[r].op = "block" => EndsIfActive(r)

SerialInv == OneOpen /\ SeenStands /\ MutualLikesMatch /\ BlockEndsMatch

=============================================================================
