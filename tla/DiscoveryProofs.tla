-------------------------- MODULE DiscoveryProofs --------------------------
(***************************************************************************)
(* Theorems about Discovery, for every set of users and requests and every *)
(* degree of concurrency.                                                  *)
(***************************************************************************)
EXTENDS Discovery, FiniteSetTheorems, TLAPS

-----------------------------------------------------------------------------
(***************************************************************************)
(* Lemmas about the operators.                                             *)
(***************************************************************************)

\* A normalized pair is a pair of users, and names the same two.
LEMMA NormalizeFacts ==
  ASSUME NEW a \in User, NEW b \in User
  PROVE  /\ Normalize(a, b) \in User \X User
         /\ Normalize(a, b) = <<a, b>> \/ Normalize(a, b) = <<b, a>>
         /\ Normalize(a, b) = Normalize(b, a)
  BY UserAssumption DEF Normalize

\* The operations on accounts yield accounts.
LEMMA AfterType ==
  ASSUME NEW op \in AccountOps, NEW a \in Account
  PROVE  After(op, a) \in Account
  BY DEF After, AccountOps, Account, Status

\* The pair of a request that has arrived.
LEMMA PairOfType ==
  ASSUME NEW r \in Req, req[r] \in Request
  PROVE  PairOf(r) \in User \X User
  BY NormalizeFacts DEF PairOf, Request

\* A transaction leaves a match row as it was or writes what it staged.
LEMMA MatchAfterFacts ==
  ASSUME TypeOK, NEW r \in Req, req[r] \in Request
  PROVE  /\ MatchAfter(r) \in [User \X User -> MatchStatus]
         /\ \A p \in User \X User :
              MatchAfter(r)[p] = IF staged[r] # "NONE" /\ p = PairOf(r)
                                 THEN staged[r] ELSE match[p]
  BY PairOfType DEF MatchAfter, TypeOK

-----------------------------------------------------------------------------
(***************************************************************************)
(* Types.                                                                  *)
(***************************************************************************)
LEMMA TypeStep == TypeOK /\ Asked /\ [Next]_vars => TypeOK' /\ Asked'
<1> SUFFICES ASSUME TypeOK, Asked, [Next]_vars
             PROVE  TypeOK' /\ Asked'
  OBVIOUS
<1> USE DEF Open, Answered
<1>1. ASSUME NEW r \in Req, NEW a \in User, NEW b \in User, NEW x \in Actions,
             SwipeCheck(r, a, b, x)
      PROVE  TypeOK' /\ Asked'
  BY <1>1, RequestAssumption
     DEF TypeOK, Asked, SwipeCheck, MaySwipe, Admit, Begin, tables, Request, AllOps, NoRequest
<1>2. ASSUME NEW r \in Req, NEW a \in User, NEW b \in User, BlockCheck(r, a, b)
      PROVE  TypeOK' /\ Asked'
  BY <1>2 DEF TypeOK, Asked, BlockCheck, Admit, Begin, tables, Request, AllOps, SwipeAction, NoRequest
<1>3. ASSUME NEW r \in Req, NEW a \in User, NEW b \in User, UnblockDelete(r, a, b)
      PROVE  TypeOK' /\ Asked'
  BY <1>3 DEF TypeOK, Asked, UnblockDelete, Admit, Begin, tables, Request, AllOps, SwipeAction, NoRequest
<1>4. ASSUME NEW r \in Req, NEW a \in User, NEW b \in User, UnmatchRead(r, a, b)
      PROVE  TypeOK' /\ Asked'
  <2>1. match[Normalize(a, b)] \in MatchStatus
    BY <1>4, NormalizeFacts DEF TypeOK
  <2> QED
    BY <1>4, <2>1
       DEF TypeOK, Asked, UnmatchRead, Admit, Begin, tables, Request, AllOps, SwipeAction, NoRequest
<1>5. ASSUME NEW r \in Req, Continue(r)
      PROVE  TypeOK' /\ Asked'
  <2> USE DEF Go, tables
  <2>1. pc[r] # "new" /\ req[r] \in Request
    BY <1>5 DEF Continue, SwipeInsert, SwipeRead, SwipeInsertMatch, SwipeCommit, BlockInsert,
       BlockRead, BlockEndMatch, BlockCommit, UnblockCommit, UnmatchWrite, UnmatchCommit, Asked
  <2>2. PairOf(r) \in User \X User /\ match[PairOf(r)] \in MatchStatus
    BY <2>1, PairOfType DEF TypeOK
  <2>3. MatchAfter(r) \in [User \X User -> MatchStatus]
    BY <2>1, MatchAfterFacts
  <2>4. CASE SwipeInsert(r)
    BY <2>4 DEF SwipeInsert, TypeOK, Asked
  <2>5. CASE SwipeRead(r)
    BY <2>5, <2>2 DEF SwipeRead, TypeOK, Asked, MatchStatus
  <2>6. CASE SwipeInsertMatch(r)
    BY <2>6 DEF SwipeInsertMatch, TypeOK, Asked, MatchStatus
  <2>7. CASE SwipeCommit(r)
    <3>1. <<req[r].me, req[r].other, req[r].action>> \in User \X User \X SwipeAction
      BY <2>1 DEF Request
    <3>2. Notices(r) \subseteq Req \X User \X {"NEW_MATCH", "NEW_LIKE"}
      BY <2>1 DEF Notices, Request
    <3> QED
      BY <2>7, <2>3, <3>1, <3>2 DEF SwipeCommit, TypeOK, Asked
  <2>8. CASE BlockInsert(r)
    BY <2>8 DEF BlockInsert, TypeOK, Asked
  <2>9. CASE BlockRead(r)
    BY <2>9, <2>2 DEF BlockRead, TypeOK, Asked
  <2>10. CASE BlockEndMatch(r)
    BY <2>10 DEF BlockEndMatch, TypeOK, Asked, MatchStatus
  <2>11. CASE BlockCommit(r)
    BY <2>11, <2>1, <2>3 DEF BlockCommit, TypeOK, Asked, Request
  <2>12. CASE UnblockCommit(r)
    BY <2>12 DEF UnblockCommit, TypeOK, Asked
  <2>13. CASE UnmatchWrite(r)
    BY <2>13 DEF UnmatchWrite, TypeOK, Asked, MatchStatus
  <2>14. CASE UnmatchCommit(r)
    BY <2>14, <2>3 DEF UnmatchCommit, TypeOK, Asked
  <2> QED
    BY <1>5, <2>4, <2>5, <2>6, <2>7, <2>8, <2>9, <2>10, <2>11, <2>12, <2>13, <2>14 DEF Continue
<1>6. ASSUME NEW r \in Req, NEW op \in AccountOps, NEW u \in User, ChangeAccount(r, op, u)
      PROVE  TypeOK' /\ Asked'
  <2>1. After(op, account[u]) \in Account
    BY AfterType DEF TypeOK
  <2> QED
    BY <1>6, <2>1
       DEF TypeOK, Asked, ChangeAccount, Admit, Begin, Request, AllOps, SwipeAction, NoRequest
<1>7. ASSUME NEW r \in Req, Fail(r)
      PROVE  TypeOK' /\ Asked'
  BY <1>7 DEF TypeOK, Asked, Fail, Go, tables
<1>8. CASE UNCHANGED vars
  BY <1>8 DEF TypeOK, Asked, vars
<1> QED
  BY <1>1, <1>2, <1>3, <1>4, <1>5, <1>6, <1>7, <1>8 DEF Next, Arrive

LEMMA TypeInit == Init => TypeOK /\ Asked
  BY DEF Init, TypeOK, Asked, ActiveAccount, Account, Status, MatchStatus, NoRequest

\* Every table and request keeps its type in every execution of Discovery.
THEOREM TypeCorrect == Spec => []TypeOK
<1>1. Spec => [](TypeOK /\ Asked)
  BY TypeInit, TypeStep, PTL DEF Spec
<1> QED
  BY <1>1, PTL

-----------------------------------------------------------------------------
(***************************************************************************)
(* The inductive invariant.  A step belongs to one request r.  The steps   *)
(* of an arriving request, the steps before a commit and the commits are   *)
(* taken in turn.                                                          *)
(***************************************************************************)
Pending == WritesLast /\ SwipeSawLike /\ EnderSawRow /\ StagedFits /\ OneWriter

\* An arriving request has written nothing and nothing changes for others.
LEMMA ArriveStep ==
  ASSUME IInv, TypeOK', NEW r \in Req, NEW q \in Request, NEW s \in {"checked", "rejected", "read", "ready", "committed"},
         pc[r] = "new", Begin(r, q, s), UNCHANGED <<swipes, match, staged>>,
         s = "read" => q.op = "unmatch" /\ match[Normalize(q.me, q.other)] # "NONE"
  PROVE  Pending' /\ MatchNeedsMutualLikes'
<1> USE DEF IInv
<1>1. /\ req' = [req EXCEPT ![r] = q]
      /\ pc' = [pc EXCEPT ![r] = s]
      /\ req'[r] = q /\ pc'[r] = s /\ staged'[r] = "NONE"
  BY DEF TypeOK, WritesLast, Begin
<1>2. \A o \in Req \ {r} : req'[o] = req[o] /\ pc'[o] = pc[o] /\ staged'[o] = staged[o]
  BY <1>1 DEF TypeOK
<1>3. \A o \in Req \ {r} : PairOf(o)' = PairOf(o) /\ (Mutual(o)' <=> Mutual(o))
  BY <1>2 DEF PairOf, Mutual, Liked
<1>4. PairOf(r)' = Normalize(q.me, q.other)
  BY <1>1 DEF PairOf
<1>5. \A p : MatchInsertable(p)' <=> MatchInsertable(p)
  BY DEF MatchInsertable
<1>6. WritesLast'
  BY <1>1, <1>2 DEF WritesLast
<1>7. SwipeSawLike'
  BY <1>1, <1>2, <1>3 DEF SwipeSawLike
<1>8. EnderSawRow'
  BY <1>1, <1>2, <1>3, <1>4 DEF EnderSawRow
<1>9. StagedFits'
  <2> SUFFICES ASSUME NEW o \in Req, pc'[o] = "ready", staged'[o] # "NONE"
               PROVE  \/ req'[o].op = "swipe" /\ staged'[o] = "ACTIVE" /\ MatchInsertable(PairOf(o))'
                      \/ req'[o].op # "swipe" /\ staged'[o] \in {"UNMATCHED", "BLOCKED"}
                           /\ match'[PairOf(o)'] # "NONE"
    BY DEF StagedFits
  <2>1. o # r
    BY <1>1
  <2> QED
    BY <2>1, <1>2, <1>3 DEF StagedFits, MatchInsertable
<1>10. OneWriter'
  BY <1>1, <1>2, <1>3 DEF OneWriter
<1>11. MatchNeedsMutualLikes'
  BY DEF MatchNeedsMutualLikes, Liked
<1> QED
  BY <1>6, <1>7, <1>8, <1>9, <1>10, <1>11 DEF Pending

\* A step of an open request that does not commit: r goes to step s and may
\* stage the status w, alone in that for its pair.
LEMMA WorkStep ==
  ASSUME IInv, TypeOK', NEW r \in Req, NEW s \in Open \cup Answered, NEW w \in MatchStatus,
         pc[r] \in Open, Go(r, s), staged' = [staged EXCEPT ![r] = w],
         UNCHANGED <<swipes, match, req>>,
         s \in {"checked", "flushed", "read"} => w = "NONE",
         req[r].op = "swipe" /\ (s = "read" \/ (s = "ready" /\ w # "NONE")) => Mutual(r),
         s = "read" /\ req[r].op # "swipe" => match[PairOf(r)] # "NONE",
         s = "ready" /\ w # "NONE" =>
           /\ ~MatchLocked(r)
           /\ \/ req[r].op = "swipe" /\ w = "ACTIVE" /\ MatchInsertable(PairOf(r))
              \/ req[r].op # "swipe" /\ w \in {"UNMATCHED", "BLOCKED"} /\ match[PairOf(r)] # "NONE"
  PROVE  Pending' /\ MatchNeedsMutualLikes'
<1> USE DEF IInv
<1>1. pc'[r] = s /\ staged'[r] = w
  BY DEF TypeOK, Go
<1>2. \A o \in Req \ {r} : pc'[o] = pc[o] /\ staged'[o] = staged[o]
  BY DEF TypeOK, Go
<1>3. \A o \in Req : PairOf(o)' = PairOf(o) /\ (Mutual(o)' <=> Mutual(o))
  BY DEF PairOf, Mutual, Liked
<1>4. \A o \in Req : MatchInsertable(PairOf(o))' <=> MatchInsertable(PairOf(o))
  BY <1>3 DEF MatchInsertable
<1>5. s # "new"
  BY DEF Open, Answered
<1>6. WritesLast'
  BY <1>1, <1>2, <1>5 DEF WritesLast
<1>7. SwipeSawLike'
  BY <1>1, <1>2, <1>3 DEF SwipeSawLike
<1>8. EnderSawRow'
  BY <1>1, <1>2, <1>3 DEF EnderSawRow
<1>9. StagedFits'
  BY <1>1, <1>2, <1>3, <1>4 DEF StagedFits
<1>10. OneWriter'
  <2> SUFFICES ASSUME NEW o \in Req, o # r, pc[o] = "ready", staged[o] # "NONE",
                      s = "ready", w # "NONE", PairOf(o) = PairOf(r)
               PROVE  FALSE
    BY <1>1, <1>2, <1>3 DEF OneWriter
  <2> QED
    BY DEF MatchLocked, Open
<1>11. MatchNeedsMutualLikes'
  BY DEF MatchNeedsMutualLikes, Liked
<1> QED
  BY <1>6, <1>7, <1>8, <1>9, <1>10, <1>11 DEF Pending

\* A commit publishes what r staged and at most adds swipes: no other open
\* request has staged anything for the pair.
LEMMA CommitStep ==
  ASSUME IInv, TypeOK', NEW r \in Req, pc[r] = "ready", Go(r, "committed"),
         match' = MatchAfter(r), UNCHANGED <<req, staged>>,
         swipes \subseteq swipes',
         req[r].op = "swipe" => <<req[r].me, req[r].other, req[r].action>> \in swipes'
  PROVE  Pending' /\ MatchNeedsMutualLikes'
<1> USE DEF IInv
<1>1. req[r] \in Request
  BY DEF Asked
<1>2. /\ \A o \in Req : pc'[o] = IF o = r THEN "committed" ELSE pc[o]
      /\ \A o \in Req : PairOf(o)' = PairOf(o)
  BY DEF TypeOK, Go, PairOf
<1>3. \A a, b : Liked(a, b) => Liked(a, b)'
  BY DEF Liked
<1>4. \A o \in Req : Mutual(o) => Mutual(o)'
  BY <1>3 DEF Mutual
<1>5. \A p \in User \X User :
        match'[p] = IF staged[r] # "NONE" /\ p = PairOf(r) THEN staged[r] ELSE match[p]
  BY <1>1, MatchAfterFacts
<1>6. \A p \in User \X User : match[p] # "NONE" => match'[p] # "NONE"
  BY <1>5
<1>7. \A o \in Req : pc[o] # "new" => PairOf(o) \in User \X User
  BY PairOfType DEF Asked
<1>8. \A o \in Req \ {r} :
        pc[o] = "ready" /\ staged[o] # "NONE" => match'[PairOf(o)] = match[PairOf(o)]
  BY <1>5, <1>7 DEF OneWriter
<1>9. WritesLast'
  BY <1>2 DEF WritesLast
<1>10. SwipeSawLike'
  BY <1>2, <1>4 DEF SwipeSawLike
<1>11. EnderSawRow'
  BY <1>2, <1>6, <1>7 DEF EnderSawRow
<1>12. StagedFits'
  <2> SUFFICES ASSUME NEW o \in Req, o # r, pc[o] = "ready", staged[o] # "NONE"
               PROVE  \/ req[o].op = "swipe" /\ staged[o] = "ACTIVE" /\ MatchInsertable(PairOf(o))'
                      \/ req[o].op # "swipe" /\ staged[o] \in {"UNMATCHED", "BLOCKED"}
                           /\ match'[PairOf(o)] # "NONE"
    BY <1>2 DEF StagedFits
  <2>1. match'[PairOf(o)] = match[PairOf(o)] /\ PairOf(o)' = PairOf(o)
    BY <1>8, <1>2
  <2> QED
    BY <2>1 DEF StagedFits, MatchInsertable
<1>13. OneWriter'
  BY <1>2 DEF OneWriter
<1>14. MatchNeedsMutualLikes'
  <2> SUFFICES ASSUME NEW a \in User, NEW b \in User, match'[<<a, b>>] # "NONE"
               PROVE  a < b /\ Liked(a, b)' /\ Liked(b, a)'
    BY DEF MatchNeedsMutualLikes
  <2>1. CASE match[<<a, b>>] # "NONE"
    BY <2>1, <1>3 DEF MatchNeedsMutualLikes
  <2>2. CASE match[<<a, b>>] = "NONE"
    <3>1. staged[r] # "NONE" /\ <<a, b>> = PairOf(r)
      BY <2>2, <1>5
    <3>2. req[r].op = "swipe" /\ MatchInsertable(PairOf(r)) /\ Mutual(r)
      BY <3>1, <2>2 DEF StagedFits, SwipeSawLike
    <3>3. a < b
      BY <3>1, <3>2 DEF MatchInsertable
    <3>4. Liked(req[r].other, req[r].me)' /\ Liked(req[r].me, req[r].other)'
      BY <3>2, <1>3 DEF Mutual, Liked
    <3>5. \/ a = req[r].me /\ b = req[r].other
          \/ a = req[r].other /\ b = req[r].me
      BY <3>1 DEF PairOf, Normalize
    <3> QED
      BY <3>3, <3>4, <3>5
  <2> QED
    BY <2>1, <2>2
<1> QED
  BY <1>9, <1>10, <1>11, <1>12, <1>13, <1>14 DEF Pending

LEMMA InvInit == Init => IInv
<1> SUFFICES ASSUME Init PROVE IInv
  OBVIOUS
<1>1. TypeOK /\ Asked
  BY TypeInit
<1>2. WritesLast /\ SwipeSawLike /\ EnderSawRow /\ StagedFits /\ OneWriter
  BY DEF Init, WritesLast, SwipeSawLike, EnderSawRow, StagedFits, OneWriter
<1>3. MatchNeedsMutualLikes
  BY DEF Init, MatchNeedsMutualLikes
<1> QED
  BY <1>1, <1>2, <1>3 DEF IInv

LEMMA InvStep == IInv /\ [Next]_vars => IInv'
<1> SUFFICES ASSUME IInv, [Next]_vars
             PROVE  IInv'
  OBVIOUS
<1>1. TypeOK' /\ Asked'
  BY TypeStep DEF IInv
<1> SUFFICES Pending' /\ MatchNeedsMutualLikes'
  BY <1>1 DEF IInv, Pending
<1> USE DEF tables
<1>2. ASSUME NEW r \in Req, NEW a \in User, NEW b \in User, NEW x \in Actions,
             SwipeCheck(r, a, b, x)
      PROVE  Pending' /\ MatchNeedsMutualLikes'
  <2> DEFINE q == [op |-> "swipe", me |-> a, other |-> b, action |-> x]
             s == IF MaySwipe(a, b, x) THEN "checked" ELSE "rejected"
  <2>1. q \in Request
    BY RequestAssumption DEF Request, AllOps
  <2>2. pc[r] = "new" /\ Begin(r, q, s) /\ UNCHANGED <<swipes, match, staged>>
    BY <1>2 DEF SwipeCheck, Admit
  <2>3. s \in {"checked", "rejected", "read", "ready", "committed"} /\ s # "read"
    OBVIOUS
  <2> HIDE DEF q, s
  <2> QED
    BY <1>1, <2>1, <2>2, <2>3, ArriveStep
<1>3. ASSUME NEW r \in Req, NEW a \in User, NEW b \in User, BlockCheck(r, a, b)
      PROVE  Pending' /\ MatchNeedsMutualLikes'
  <2> DEFINE q == [op |-> "block", me |-> a, other |-> b, action |-> "PASS"]
             s == IF CanCall(account[a]) /\ a # b /\ <<a, b>> \notin blocks
                  THEN "checked" ELSE "rejected"
  <2>1. q \in Request
    BY DEF Request, AllOps, SwipeAction
  <2>2. pc[r] = "new" /\ Begin(r, q, s) /\ UNCHANGED <<swipes, match, staged>>
    BY <1>3 DEF BlockCheck, Admit
  <2>3. s \in {"checked", "rejected", "read", "ready", "committed"} /\ s # "read"
    OBVIOUS
  <2> HIDE DEF q, s
  <2> QED
    BY <1>1, <2>1, <2>2, <2>3, ArriveStep
<1>4. ASSUME NEW r \in Req, NEW a \in User, NEW b \in User, UnblockDelete(r, a, b)
      PROVE  Pending' /\ MatchNeedsMutualLikes'
  <2> DEFINE q == [op |-> "unblock", me |-> a, other |-> b, action |-> "PASS"]
             s == IF CanCall(account[a]) /\ <<a, b>> \in blocks THEN "ready" ELSE "rejected"
  <2>1. q \in Request
    BY DEF Request, AllOps, SwipeAction
  <2>2. pc[r] = "new" /\ Begin(r, q, s) /\ UNCHANGED <<swipes, match, staged>>
    BY <1>4 DEF UnblockDelete, Admit
  <2>3. s \in {"checked", "rejected", "read", "ready", "committed"} /\ s # "read"
    OBVIOUS
  <2> HIDE DEF q, s
  <2> QED
    BY <1>1, <2>1, <2>2, <2>3, ArriveStep
<1>5. ASSUME NEW r \in Req, NEW a \in User, NEW b \in User, UnmatchRead(r, a, b)
      PROVE  Pending' /\ MatchNeedsMutualLikes'
  <2> DEFINE q == [op |-> "unmatch", me |-> a, other |-> b, action |-> "PASS"]
             s == IF CanCall(account[a]) /\ match[Normalize(a, b)] # "NONE"
                  THEN "read" ELSE "rejected"
  <2>1. q \in Request
    BY DEF Request, AllOps, SwipeAction
  <2>2. pc[r] = "new" /\ Begin(r, q, s) /\ UNCHANGED <<swipes, match, staged>>
    BY <1>5 DEF UnmatchRead, Admit
  <2>3. s \in {"checked", "rejected", "read", "ready", "committed"}
    OBVIOUS
  <2>4. s = "read" => q.op = "unmatch" /\ match[Normalize(q.me, q.other)] # "NONE"
    OBVIOUS
  <2> HIDE DEF q, s
  <2> QED
    BY <1>1, <2>1, <2>2, <2>3, <2>4, ArriveStep
<1>6. ASSUME NEW r \in Req, NEW op \in AccountOps, NEW u \in User, ChangeAccount(r, op, u)
      PROVE  Pending' /\ MatchNeedsMutualLikes'
  <2> DEFINE q == [op |-> op, me |-> u, other |-> u, action |-> "PASS"]
  <2>1. q \in Request
    BY DEF Request, AllOps, SwipeAction
  <2>2. pc[r] = "new" /\ Begin(r, q, "committed") /\ UNCHANGED <<swipes, match, staged>>
    BY <1>6 DEF ChangeAccount, Admit
  <2> HIDE DEF q
  <2> QED
    BY <1>1, <2>1, <2>2, ArriveStep
<1>7. ASSUME NEW r \in Req, Continue(r)
      PROVE  Pending' /\ MatchNeedsMutualLikes'
  <2> USE DEF IInv
  <2>1. CASE SwipeInsert(r)
    <3>1. staged' = [staged EXCEPT ![r] = "NONE"]
      BY <2>1 DEF SwipeInsert, WritesLast, TypeOK
    <3> QED
      BY <2>1, <1>1, <3>1, WorkStep DEF SwipeInsert, Open, Answered, MatchStatus
  <2>2. CASE SwipeRead(r)
    <3>1. staged' = [staged EXCEPT ![r] = "NONE"]
      BY <2>2 DEF SwipeRead, WritesLast, TypeOK
    <3> QED
      BY <2>2, <1>1, <3>1, WorkStep DEF SwipeRead, Open, Answered, MatchStatus
  <2>3. CASE SwipeInsertMatch(r)
    <3>1. CASE MatchInsertable(PairOf(r)) /\ staged' = [staged EXCEPT ![r] = "ACTIVE"] /\ Go(r, "ready")
      BY <2>3, <1>1, <3>1, WorkStep
         DEF SwipeInsertMatch, SwipeSawLike, Open, Answered, MatchStatus
    <3>2. CASE Go(r, "integrity") /\ UNCHANGED staged
      <4>1. staged' = [staged EXCEPT ![r] = "NONE"]
        BY <2>3, <3>2 DEF SwipeInsertMatch, WritesLast, TypeOK
      <4> QED
        BY <2>3, <1>1, <3>2, <4>1, WorkStep DEF SwipeInsertMatch, Open, Answered, MatchStatus
    <3> QED
      BY <2>3, <3>1, <3>2 DEF SwipeInsertMatch
  <2>4. CASE BlockInsert(r)
    <3>1. staged' = [staged EXCEPT ![r] = "NONE"]
      BY <2>4 DEF BlockInsert, WritesLast, TypeOK
    <3> QED
      BY <2>4, <1>1, <3>1, WorkStep DEF BlockInsert, Open, Answered, MatchStatus
  <2>5. CASE BlockRead(r)
    <3>1. staged' = [staged EXCEPT ![r] = "NONE"]
      BY <2>5 DEF BlockRead, WritesLast, TypeOK
    <3> QED
      BY <2>5, <1>1, <3>1, WorkStep DEF BlockRead, Open, Answered, MatchStatus
  <2>6. CASE BlockEndMatch(r)
    BY <2>6, <1>1, WorkStep DEF BlockEndMatch, EnderSawRow, Open, Answered, MatchStatus
  <2>7. CASE UnmatchWrite(r)
    <3> DEFINE w == IF loaded[r] = "UNMATCHED" THEN "NONE" ELSE "UNMATCHED"
    <3>1. w \in MatchStatus /\ staged' = [staged EXCEPT ![r] = w]
      BY <2>7 DEF UnmatchWrite, MatchStatus
    <3>2. w # "NONE" => w = "UNMATCHED"
      OBVIOUS
    <3> HIDE DEF w
    <3> QED
      BY <2>7, <1>1, <3>1, <3>2, WorkStep DEF UnmatchWrite, EnderSawRow, Open, Answered
  <2>8. CASE SwipeCommit(r)
    BY <2>8, <1>1, CommitStep DEF SwipeCommit
  <2>9. CASE BlockCommit(r)
    BY <2>9, <1>1, CommitStep DEF BlockCommit
  <2>10. CASE UnmatchCommit(r)
    BY <2>10, <1>1, CommitStep DEF UnmatchCommit
  <2>11. CASE UnblockCommit(r)
    <3>1. pc' = [pc EXCEPT ![r] = "committed"] /\ UNCHANGED <<swipes, match, req, staged>>
      BY <2>11 DEF UnblockCommit, Go
    <3>2. staged[r] \in MatchStatus /\ staged' = [staged EXCEPT ![r] = staged[r]]
      BY <3>1 DEF TypeOK
    <3> QED
      BY <2>11, <1>1, <3>1, <3>2, WorkStep DEF UnblockCommit, Go, Open, Answered
  <2> QED
    BY <1>7, <2>1, <2>2, <2>3, <2>4, <2>5, <2>6, <2>7, <2>8, <2>9, <2>10, <2>11 DEF Continue
<1>8. ASSUME NEW r \in Req, Fail(r)
      PROVE  Pending' /\ MatchNeedsMutualLikes'
  <2>1. staged[r] \in MatchStatus /\ staged' = [staged EXCEPT ![r] = staged[r]]
    BY <1>8 DEF Fail, IInv, TypeOK
  <2> QED
    BY <1>8, <1>1, <2>1, WorkStep DEF Fail, Open, Answered
<1>9. CASE UNCHANGED vars
  BY <1>9 DEF IInv, Pending, vars, WritesLast, SwipeSawLike, EnderSawRow, StagedFits, OneWriter,
     MatchNeedsMutualLikes, PairOf, Mutual, Liked, MatchInsertable
<1> QED
  BY <1>2, <1>3, <1>4, <1>5, <1>6, <1>7, <1>8, <1>9 DEF Next, Arrive

\* The strengthened invariant holds in every execution.
THEOREM Invariant == Spec => []IInv
  BY InvInit, InvStep, PTL DEF Spec

\* In every execution, only users who like each other have a match row.
THEOREM MutualLikesNeeded == Spec => []MatchNeedsMutualLikes
<1>1. IInv => MatchNeedsMutualLikes
  BY DEF IInv
<1> QED
  BY <1>1, Invariant, PTL

-----------------------------------------------------------------------------
(***************************************************************************)
(* What a step may do to the match rows, and the refinement.               *)
(***************************************************************************)

\* Only commits touch likes and matches.
LEMMA WhoWrites ==
  ASSUME IInv, [Next]_vars
  PROVE  \/ UNCHANGED <<swipes, match>>
         \/ \E r \in Req : SwipeCommit(r) \/ BlockCommit(r) \/ UnmatchCommit(r)
<1> USE DEF tables
<1>1. ASSUME NEW r \in Req, Arrive(r)
      PROVE  UNCHANGED <<swipes, match>>
  BY <1>1 DEF Arrive, SwipeCheck, BlockCheck, UnblockDelete, UnmatchRead
<1>2. ASSUME NEW r \in Req, Continue(r)
      PROVE  \/ UNCHANGED <<swipes, match>>
             \/ SwipeCommit(r) \/ BlockCommit(r) \/ UnmatchCommit(r)
  BY <1>2 DEF Continue, SwipeInsert, SwipeRead, SwipeInsertMatch, BlockInsert, BlockRead,
     BlockEndMatch, UnblockCommit, UnmatchWrite
<1>3. ASSUME NEW r \in Req, NEW op \in AccountOps, NEW u \in User, ChangeAccount(r, op, u)
      PROVE  UNCHANGED <<swipes, match>>
  BY <1>3 DEF ChangeAccount
<1>4. ASSUME NEW r \in Req, Fail(r)
      PROVE  UNCHANGED <<swipes, match>>
  BY <1>4 DEF Fail
<1>5. CASE UNCHANGED vars
  BY <1>5 DEF vars
<1> QED
  BY <1>1, <1>2, <1>3, <1>4, <1>5 DEF Next

LEMMA ReviveStep ==
  ASSUME IInv, [Next]_vars, NEW p \in User \X User, match[p] # "NONE"
  PROVE  match'[p] = match[p] \/ match'[p] \in {"UNMATCHED", "BLOCKED"}
<1>1. CASE UNCHANGED <<swipes, match>>
  BY <1>1
<1>2. ASSUME NEW r \in Req, pc[r] = "ready", match' = MatchAfter(r)
      PROVE  match'[p] = match[p] \/ match'[p] \in {"UNMATCHED", "BLOCKED"}
  <2>1. req[r] \in Request
    BY <1>2 DEF IInv, Asked
  <2>2. match'[p] = IF staged[r] # "NONE" /\ p = PairOf(r) THEN staged[r] ELSE match[p]
    BY <1>2, <2>1, MatchAfterFacts DEF IInv
  <2> QED
    BY <1>2, <2>2 DEF IInv, StagedFits, MatchInsertable
<1> QED
  BY <1>1, <1>2, WhoWrites DEF SwipeCommit, BlockCommit, UnmatchCommit

\* In every execution, a match that has ended stays ended and none is lost.
THEOREM EndedStaysEnded == Spec => MatchNeverRevives
<1>1. IInv /\ [Next]_vars =>
        [\A p \in User \X User : match[p] # "NONE" =>
           match'[p] = match[p] \/ match'[p] \in {"UNMATCHED", "BLOCKED"}]_vars
  BY ReviveStep
<1> QED
  BY <1>1, Invariant, PTL DEF Spec, MatchNeverRevives

\* Every step of Discovery is a step of Matching or leaves its view alone.
LEMMA RefinementStep ==
  ASSUME IInv, [Next]_vars
  PROVE  [Abstract!MNext]_<<{p \in User \X User : Liked(p[1], p[2])}, match>>
<1> DEFINE likes == {p \in User \X User : Liked(p[1], p[2])}
<1> SUFFICES Abstract!MNext \/ UNCHANGED <<likes, match>>
  OBVIOUS
<1> USE DEF IInv
<1>1. CASE UNCHANGED <<swipes, match>>
  BY <1>1 DEF Liked
<1>2. ASSUME NEW r \in Req, SwipeCommit(r)
      PROVE  Abstract!MNext \/ UNCHANGED <<likes, match>>
  <2> DEFINE a == req[r].me
             b == req[r].other
             x == req[r].action
  <2>1. /\ a \in User /\ b \in User /\ x \in SwipeAction /\ a # b
        /\ swipes' = swipes \cup {<<a, b, x>>}
        /\ match' = MatchAfter(r)
        /\ PairOf(r) = Abstract!Pair(a, b)
    BY <1>2 DEF SwipeCommit, Asked, Request, Open, PairOf, Normalize, Abstract!Pair
  <2> HIDE DEF a, b, x
  <2>2. x \in Like => likes' = likes \cup {<<a, b>>}
    <3> SUFFICES ASSUME x \in Like, NEW u \in User, NEW v \in User
                 PROVE  Liked(u, v)' <=> Liked(u, v) \/ (u = a /\ v = b)
      BY <2>1
    <3> QED
      BY <2>1 DEF Liked
  <2>3. x \notin Like => likes' = likes
    <3> SUFFICES ASSUME x \notin Like, NEW u \in User, NEW v \in User
                 PROVE  Liked(u, v)' <=> Liked(u, v)
      BY <2>1
    <3> QED
      BY <2>1 DEF Liked
  <2>4. CASE staged[r] = "NONE"
    <3>1. match' = match
      BY <2>1, <2>4 DEF MatchAfter
    <3> QED
      BY <2>1, <2>2, <2>3, <3>1 DEF Abstract!MNext, Abstract!LikeInVain
  <2>5. CASE staged[r] # "NONE"
    <3>1. Mutual(r) /\ staged[r] = "ACTIVE" /\ MatchInsertable(PairOf(r))
      BY <1>2, <2>5 DEF SwipeCommit, SwipeSawLike, StagedFits
    <3>2. x \in Like /\ <<b, a>> \in likes
      BY <3>1, <2>1 DEF Mutual, a, b, x
    <3>3. match[PairOf(r)] = "NONE" /\ match' = [match EXCEPT ![PairOf(r)] = "ACTIVE"]
      BY <3>1, <2>1 DEF MatchInsertable, MatchAfter
    <3>4. Abstract!LikeBack(a, b)
      BY <2>1, <2>2, <3>2, <3>3 DEF Abstract!LikeBack
    <3> QED
      BY <2>1, <3>4 DEF Abstract!MNext
  <2> QED
    BY <2>4, <2>5
<1>3. ASSUME NEW r \in Req, BlockCommit(r) \/ UnmatchCommit(r)
      PROVE  Abstract!MNext \/ UNCHANGED <<likes, match>>
  <2>1. /\ req[r] \in Request /\ req[r].op # "swipe" /\ pc[r] = "ready"
        /\ match' = MatchAfter(r) /\ likes' = likes
    BY <1>3 DEF BlockCommit, UnmatchCommit, Asked, Liked
  <2>2. PairOf(r) = Abstract!Pair(req[r].me, req[r].other)
    BY DEF PairOf, Normalize, Abstract!Pair
  <2>3. CASE staged[r] = "NONE"
    BY <2>1, <2>3 DEF MatchAfter
  <2>4. CASE staged[r] # "NONE"
    <3>1. staged[r] \in {"UNMATCHED", "BLOCKED"} /\ match[PairOf(r)] # "NONE"
      BY <2>1, <2>4 DEF StagedFits
    <3>2. Abstract!EndMatch(req[r].me, req[r].other, staged[r])
      BY <2>1, <2>2, <2>4, <3>1 DEF Abstract!EndMatch, MatchAfter
    <3> QED
      BY <2>1, <3>1, <3>2 DEF Abstract!MNext, Request
  <2> QED
    BY <2>3, <2>4
<1> QED
  BY <1>1, <1>2, <1>3, WhoWrites

\* Discovery implements Matching.
THEOREM Refinement == Spec => ImplementsMatching
<1>1. Init => Abstract!MInit
  BY DEF Init, Abstract!MInit, Liked
<1>2. IInv /\ [Next]_vars => [Abstract!MNext]_<<{p \in User \X User : Liked(p[1], p[2])}, match>>
  BY RefinementStep
<1> QED
  BY <1>1, <1>2, Invariant, PTL DEF Spec, ImplementsMatching, Abstract!MSpec

-----------------------------------------------------------------------------
(***************************************************************************)
(* Who moves.                                                              *)
(***************************************************************************)
Step(r) ==
  Arrive(r) \/ Continue(r) \/ Fail(r) \/ \E op \in AccountOps, u \in User : ChangeAccount(r, op, u)

\* The step of a request changes no other, and answers are final.
LEMMA OneMoves ==
  ASSUME TypeOK, NEW r \in Req, Step(r)
  PROVE  /\ \A o \in Req \ {r} : pc'[o] = pc[o] /\ req'[o] = req[o] /\ staged'[o] = staged[o]
         /\ pc[r] \in Open \/ (pc[r] = "new" /\ Cardinality(InWork) < MaxInFlight)
<1> USE DEF TypeOK, tables, Open
<1>1. CASE Arrive(r)
  BY <1>1 DEF Arrive, SwipeCheck, BlockCheck, UnblockDelete, UnmatchRead, Admit, Begin, InWork
<1>2. CASE Continue(r)
  BY <1>2 DEF Continue, SwipeInsert, SwipeRead, SwipeInsertMatch, SwipeCommit, BlockInsert, BlockRead,
     BlockEndMatch, BlockCommit, UnblockCommit, UnmatchWrite, UnmatchCommit, Go
<1>3. CASE Fail(r)
  BY <1>3 DEF Fail, Go
<1>4. ASSUME NEW op \in AccountOps, NEW u \in User, ChangeAccount(r, op, u)
      PROVE  /\ \A o \in Req \ {r} : pc'[o] = pc[o] /\ req'[o] = req[o] /\ staged'[o] = staged[o]
             /\ pc[r] = "new" /\ Cardinality(InWork) < MaxInFlight
  BY <1>4 DEF ChangeAccount, Admit, Begin, InWork
<1> QED
  BY <1>1, <1>2, <1>3, <1>4 DEF Step

LEMMA NextIsStep == [Next]_vars => UNCHANGED vars \/ \E r \in Req : Step(r)
  BY DEF Next, Step

-----------------------------------------------------------------------------
(***************************************************************************)
(* A match is announced once.                                              *)
(***************************************************************************)

\* A step that creates no match.
LEMMA NoCreation ==
  ASSUME IInv, AnnouncedInv, inbox' = inbox,
         \A o \in Req : Created(o)' <=> Created(o),
         \A o \in Req : Created(o) => req'[o] = req[o],
         \A p \in User \X User : match'[p] = "NONE" <=> match[p] = "NONE"
  PROVE  AnnouncedInv'
<1>1. \A o \in Req : Created(o) => PairOf(o)' = PairOf(o) /\ PairOf(o) \in User \X User
  BY PairOfType DEF PairOf, Created, IInv, Asked
<1>2. ToldByCreator'
  BY DEF AnnouncedInv, ToldByCreator
<1>3. OneCreator'
  BY <1>1 DEF AnnouncedInv, OneCreator
<1> QED
  BY <1>2, <1>3 DEF AnnouncedInv

\* The swipe that commits creates the match it has staged, if any, and tells
\* both of it.
LEMMA Creation ==
  ASSUME IInv, AnnouncedInv, NEW r \in Req, SwipeCommit(r)
  PROVE  AnnouncedInv'
<1> USE DEF IInv
<1>1. /\ pc[r] = "ready" /\ req[r].op = "swipe" /\ req[r] \in Request
      /\ pc' = [pc EXCEPT ![r] = "committed"] /\ UNCHANGED <<req, staged>>
      /\ match' = MatchAfter(r) /\ inbox' = inbox \cup Notices(r)
  BY DEF SwipeCommit, Go, Asked
<1>2. \A o \in Req \ {r} : Created(o)' <=> Created(o)
  BY <1>1 DEF Created, TypeOK
<1>3. ~Created(r) /\ (Created(r)' <=> staged[r] = "ACTIVE")
  BY <1>1 DEF Created, TypeOK
<1>4. \A o \in Req : PairOf(o)' = PairOf(o)
  BY <1>1 DEF PairOf
<1>5. \A p \in User \X User :
        match'[p] = IF staged[r] # "NONE" /\ p = PairOf(r) THEN staged[r] ELSE match[p]
  BY <1>1, MatchAfterFacts
<1>6. PairOf(r) \in User \X User
  BY <1>1, PairOfType
<1>7. CASE staged[r] = "NONE"
  <2>1. \A u \in User : <<r, u, "NEW_MATCH">> \notin Notices(r)
    BY <1>7 DEF Notices
  <2>2. \A o \in Req, u \in User : <<o, u, "NEW_MATCH">> \in Notices(r) => o = r
    BY DEF Notices
  <2>3. ToldByCreator'
    BY <1>1, <1>2, <1>3, <1>7, <2>1, <2>2 DEF AnnouncedInv, ToldByCreator
  <2>4. OneCreator'
    BY <1>2, <1>3, <1>4, <1>5, <1>7, PairOfType DEF AnnouncedInv, OneCreator, Created, Asked
  <2> QED
    BY <2>3, <2>4 DEF AnnouncedInv
<1>8. CASE staged[r] # "NONE"
  <2>1. staged[r] = "ACTIVE" /\ match[PairOf(r)] = "NONE"
    BY <1>1, <1>8 DEF StagedFits, MatchInsertable
  <2>2. Notices(r) = {<<r, u, "NEW_MATCH">> : u \in {req[r].me, req[r].other}}
    BY <2>1 DEF Notices
  <2>3. ToldByCreator'
    BY <1>1, <1>2, <1>3, <2>1, <2>2 DEF AnnouncedInv, ToldByCreator
  <2>4. \A o \in Req : Created(o) => PairOf(o) # PairOf(r)
    BY <2>1 DEF AnnouncedInv, OneCreator
  <2>5. \A o \in Req : Created(o) => PairOf(o) \in User \X User
    BY PairOfType DEF Created, Asked
  <2>6. OneCreator'
    BY <1>2, <1>3, <1>4, <1>5, <1>6, <2>1, <2>4, <2>5 DEF AnnouncedInv, OneCreator
  <2> QED
    BY <2>3, <2>6 DEF AnnouncedInv
<1> QED
  BY <1>7, <1>8

LEMMA AnnouncedStep ==
  ASSUME IInv, AnnouncedInv, [Next]_vars
  PROVE  AnnouncedInv'
<1> USE DEF IInv
<1>1. CASE UNCHANGED vars
  BY <1>1, NoCreation DEF vars, Created
<1>2. ASSUME NEW r \in Req, Step(r), ~SwipeCommit(r)
      PROVE  AnnouncedInv'
  <2>1. req'[r].op = "swipe" => pc'[r] # "committed"
    <3> USE DEF tables, TypeOK
    <3>1. CASE Arrive(r)
      BY <3>1 DEF Arrive, SwipeCheck, BlockCheck, UnblockDelete, UnmatchRead, Begin
    <3>2. CASE Continue(r)
      BY <3>2, <1>2 DEF Continue, SwipeInsert, SwipeRead, SwipeInsertMatch, BlockInsert, BlockRead,
         BlockEndMatch, BlockCommit, UnblockCommit, UnmatchWrite, UnmatchCommit, Go
    <3>3. CASE Fail(r)
      BY <3>3 DEF Fail, Go
    <3>4. ASSUME NEW op \in AccountOps, NEW u \in User, ChangeAccount(r, op, u)
          PROVE  req'[r].op = "swipe" => pc'[r] # "committed"
      BY <3>4 DEF ChangeAccount, Begin, AccountOps
    <3> QED
      BY <3>1, <3>2, <3>3, <3>4, <1>2 DEF Step
  <2>2. inbox' = inbox
    <3> USE DEF tables
    <3>1. CASE Arrive(r)
      BY <3>1 DEF Arrive, SwipeCheck, BlockCheck, UnblockDelete, UnmatchRead
    <3>2. CASE Continue(r)
      BY <3>2, <1>2 DEF Continue, SwipeInsert, SwipeRead, SwipeInsertMatch, BlockInsert, BlockRead,
         BlockEndMatch, BlockCommit, UnblockCommit, UnmatchWrite, UnmatchCommit
    <3> QED
      BY <3>1, <3>2, <1>2 DEF Step, Fail, ChangeAccount
  <2>3. \A o \in Req : Created(o)' <=> Created(o)
    BY <1>2, <2>1, <2>2, OneMoves DEF Created, Open
  <2>4. \A o \in Req : Created(o) => req'[o] = req[o]
    BY <1>2, OneMoves DEF Created, Open
  <2>5. \A p \in User \X User : match'[p] = "NONE" <=> match[p] = "NONE"
    <3>1. CASE UNCHANGED <<swipes, match>>
      BY <3>1
    <3>2. ASSUME NEW q \in Req, BlockCommit(q) \/ UnmatchCommit(q)
          PROVE  \A p \in User \X User : match'[p] = "NONE" <=> match[p] = "NONE"
      <4>1. pc[q] = "ready" /\ req[q].op # "swipe" /\ req[q] \in Request /\ match' = MatchAfter(q)
        BY <3>2 DEF BlockCommit, UnmatchCommit, Asked
      <4>2. staged[q] # "NONE" => match[PairOf(q)] # "NONE"
        BY <4>1 DEF StagedFits
      <4> QED
        BY <4>1, <4>2, MatchAfterFacts
    <3>3. ASSUME NEW q \in Req, SwipeCommit(q)
          PROVE  FALSE
      <4>1. q # r
        BY <1>2, <3>3
      <4> QED
        BY <1>2, <3>3, <4>1, OneMoves DEF SwipeCommit, Go, TypeOK
    <3> QED
      BY <3>1, <3>2, <3>3, WhoWrites
  <2> QED
    BY <2>2, <2>3, <2>4, <2>5, NoCreation
<1> QED
  BY <1>1, <1>2, Creation, NextIsStep

LEMMA AnnouncedInit == Init => AnnouncedInv
  BY DEF Init, AnnouncedInv, ToldByCreator, OneCreator, Created

\* With one author there is one notification for each.
LEMMA OneNotice ==
  ASSUME IInv, AnnouncedInv
  PROVE  MatchAnnouncedOnce
<1> SUFFICES ASSUME NEW a \in User, NEW b \in User, match[<<a, b>>] # "NONE", NEW u \in {a, b}
             PROVE  Cardinality({r \in Req : /\ <<r, u, "NEW_MATCH">> \in inbox
                                             /\ PairOf(r) = <<a, b>>}) = 1
  BY DEF MatchAnnouncedOnce
<1>1. PICK c \in Req : Created(c) /\ PairOf(c) = <<a, b>>
  BY DEF AnnouncedInv, OneCreator
<1>2. u \in {req[c].me, req[c].other}
  BY <1>1 DEF PairOf, Normalize
<1>3. {r \in Req : <<r, u, "NEW_MATCH">> \in inbox /\ PairOf(r) = <<a, b>>} = {c}
  BY <1>1, <1>2 DEF AnnouncedInv, ToldByCreator, OneCreator
<1> QED
  BY <1>3, FS_Singleton

\* In every execution, both partners of a match are told of it exactly once.
THEOREM AnnouncedOnce == Spec => []MatchAnnouncedOnce
<1>1. IInv /\ AnnouncedInv /\ [Next]_vars => AnnouncedInv'
  BY AnnouncedStep
<1>2. IInv /\ AnnouncedInv => MatchAnnouncedOnce
  BY OneNotice
<1> QED
  BY <1>1, <1>2, AnnouncedInit, Invariant, PTL DEF Spec
-----------------------------------------------------------------------------
(***************************************************************************)
(* The load, and what a serial load gives.                                 *)
(***************************************************************************)
LEMMA LoadInit == Init => LoadBounded
<1> SUFFICES ASSUME Init PROVE LoadBounded
  OBVIOUS
<1>1. InWork = {}
  BY DEF Init, InWork, Open
<1> QED
  BY <1>1, FS_EmptySet, LoadAssumption DEF LoadBounded

LEMMA LoadStep ==
  ASSUME TypeOK, LoadBounded, [Next]_vars
  PROVE  LoadBounded'
<1> USE DEF LoadBounded
<1>1. CASE UNCHANGED vars
  BY <1>1 DEF vars, InWork
<1>2. ASSUME NEW r \in Req, Step(r)
      PROVE  LoadBounded'
  <2>1. \A o \in Req \ {r} : pc'[o] = pc[o]
    BY <1>2, OneMoves
  <2>2. CASE r \in InWork \/ r \notin InWork'
    <3>1. InWork' \subseteq InWork
      BY <2>1, <2>2 DEF InWork
    <3>2. IsFiniteSet(InWork') /\ Cardinality(InWork') <= Cardinality(InWork)
      BY <3>1, FS_Subset
    <3>3. Cardinality(InWork) \in Nat /\ Cardinality(InWork') \in Nat
      BY <3>2, FS_CardinalityType
    <3> QED
      BY <3>2, <3>3, LoadAssumption
  <2>3. CASE r \notin InWork /\ r \in InWork'
    <3>1. InWork' = InWork \cup {r}
      BY <2>1, <2>3 DEF InWork
    <3>2. IsFiniteSet(InWork') /\ Cardinality(InWork') = Cardinality(InWork) + 1
      BY <2>3, <3>1, FS_AddElement
    <3>3. Cardinality(InWork) < MaxInFlight
      BY <1>2, <2>3, OneMoves DEF InWork
    <3>4. Cardinality(InWork) \in Nat
      BY FS_CardinalityType
    <3> QED
      BY <3>2, <3>3, <3>4, LoadAssumption
  <2> QED
    BY <2>2, <2>3
<1> QED
  BY <1>1, <1>2, NextIsStep

\* The servers never work on more requests than they have workers.
THEOREM LoadLimit == Spec => []LoadBounded
<1>1. TypeOK /\ LoadBounded /\ [Next]_vars => LoadBounded'
  BY LoadStep
<1> QED
  BY <1>1, LoadInit, TypeCorrect, PTL DEF Spec

\* With one worker there is at most one open request.
LEMMA OneWorker ==
  ASSUME LoadBounded, MaxInFlight = 1
  PROVE  OneOpen /\ (Cardinality(InWork) < MaxInFlight => InWork = {})
<1>1. Cardinality(InWork) \in Nat /\ Cardinality(InWork) <= 1
  BY FS_CardinalityType DEF LoadBounded
<1>2. CASE Cardinality(InWork) = 0
  <2>1. InWork = {}
    BY <1>2, FS_EmptySet DEF LoadBounded
  <2> QED
    BY <2>1 DEF OneOpen
<1>3. CASE Cardinality(InWork) = 1
  <2>1. PICK x : InWork = {x}
    BY <1>3, FS_Singleton DEF LoadBounded
  <2> QED
    BY <1>3, <2>1 DEF OneOpen
<1> QED
  BY <1>1, <1>2, <1>3

\* So whoever moves is alone.
LEMMA Alone ==
  ASSUME TypeOK, LoadBounded, LoadBounded', MaxInFlight = 1, NEW r \in Req, Step(r)
  PROVE  \A o \in InWork' : o = r
<1>1. \A o \in Req \ {r} : pc'[o] = pc[o]
  BY OneMoves
<1>2. InWork \subseteq {r}
  BY OneMoves, OneWorker DEF OneOpen, InWork
<1> QED
  BY <1>1, <1>2 DEF InWork

-----------------------------------------------------------------------------
(***************************************************************************)
(* Requests served one at a time.  Only the step that ends a request       *)
(* writes tables, and then no request is left that could have read them.   *)
(***************************************************************************)

\* The rows a commit leaves.
LEMMA CommittedMatch ==
  ASSUME IInv, NEW r \in Req, pc[r] = "ready", match' = MatchAfter(r)
  PROVE  /\ PairOf(r) \in User \X User
         /\ \A p \in User \X User :
              match'[p] = IF staged[r] # "NONE" /\ p = PairOf(r) THEN staged[r] ELSE match[p]
         /\ req[r].op # "swipe" =>
              \A p \in User \X User : /\ match[p] # "NONE" => match'[p] # "NONE"
                                      /\ match'[p] = "ACTIVE" => match[p] = "ACTIVE"
  BY PairOfType, MatchAfterFacts DEF IInv, Asked, StagedFits

\* What an open request has read, it finds again: while it is at work, the
\* tables do not change.
LEMMA SeenStep ==
  ASSUME IInv, SeenStands, NEW r \in Req, Step(r), \A o \in InWork' : o = r
  PROVE  SeenStands'
<1> USE DEF IInv, TypeOK, tables, InWork
<1> SUFFICES ASSUME pc'[r] \in Open
             PROVE  /\ req'[r].op = "swipe" => StillMaySwipe(r)' /\ CreatesIfMutual(r)'
                    /\ req'[r].op = "block" => EndsIfActive(r)'
  BY DEF SeenStands
<1>1. CASE Arrive(r)
  <2>1. ASSUME NEW a \in User, NEW b \in User, NEW x \in Actions, SwipeCheck(r, a, b, x)
        PROVE  /\ pc'[r] = "checked" /\ req'[r].op = "swipe" /\ StillMaySwipe(r)'
    BY <2>1 DEF SwipeCheck, Begin, MaySwipe, StillMaySwipe, BlockedEitherWay, Open
  <2>2. ASSUME NEW a \in User, NEW b \in User,
               BlockCheck(r, a, b) \/ UnblockDelete(r, a, b) \/ UnmatchRead(r, a, b)
        PROVE  req'[r].op # "swipe" /\ (req'[r].op = "block" => pc'[r] # "ready")
    BY <2>2 DEF BlockCheck, UnblockDelete, UnmatchRead, Begin
  <2> QED
    BY <1>1, <2>1, <2>2 DEF Arrive, CreatesIfMutual, EndsIfActive
<1>2. CASE Continue(r)
  <2> USE DEF Go
  <2>1. /\ UNCHANGED <<tables, req>>
        /\ pc[r] \in Open /\ (req[r].op = "swipe" => StillMaySwipe(r))
    BY <1>2 DEF Continue, SwipeInsert, SwipeRead, SwipeInsertMatch, SwipeCommit, BlockInsert, BlockRead,
       BlockEndMatch, BlockCommit, UnblockCommit, UnmatchWrite, UnmatchCommit, Open, SeenStands
  <2>2. StillMaySwipe(r)' <=> StillMaySwipe(r)
    BY <2>1 DEF StillMaySwipe, BlockedEitherWay
  <2>3. (Mutual(r)' <=> Mutual(r)) /\ match'[PairOf(r)'] = match[PairOf(r)]
    BY <2>1 DEF Mutual, Liked, PairOf
  <2>4. req[r].op = "swipe" => CreatesIfMutual(r)'
    BY <1>2, <2>1, <2>3
       DEF Continue, SwipeInsert, SwipeRead, SwipeInsertMatch, SwipeCommit, BlockInsert, BlockRead,
           BlockEndMatch, BlockCommit, UnblockCommit, UnmatchWrite, UnmatchCommit, Open, CreatesIfMutual
  <2>5. req[r].op = "block" => EndsIfActive(r)'
    BY <1>2, <2>1, <2>3
       DEF Continue, SwipeInsert, SwipeRead, SwipeInsertMatch, SwipeCommit, BlockInsert, BlockRead,
           BlockEndMatch, BlockCommit, UnblockCommit, UnmatchWrite, UnmatchCommit, Open, EndsIfActive
  <2> QED
    BY <2>1, <2>2, <2>4, <2>5
<1>3. CASE Fail(r)
  BY <1>3 DEF Fail, Go, Open
<1>4. ASSUME NEW op \in AccountOps, NEW u \in User, ChangeAccount(r, op, u)
      PROVE  FALSE
  BY <1>4 DEF ChangeAccount, Begin, Open
<1> QED
  BY <1>1, <1>2, <1>3, <1>4 DEF Step

\* The swipe that makes a liking mutual commits the match with it, and
\* between users neither of whom has blocked the other.
LEMMA SerialSwipe ==
  ASSUME IInv, SerialInv, NEW r \in Req, SwipeCommit(r)
  PROVE  MutualLikesMatch' /\ BlockEndsMatch'
<1> USE DEF IInv, SerialInv
<1>1. /\ pc[r] = "ready" /\ req[r].op = "swipe" /\ req[r] \in Request
      /\ swipes' = swipes \cup {<<req[r].me, req[r].other, req[r].action>>}
      /\ match' = MatchAfter(r) /\ UNCHANGED blocks
  BY DEF SwipeCommit, Asked
<1>2. StillMaySwipe(r) /\ CreatesIfMutual(r)
  BY <1>1 DEF SeenStands, InWork, Open
<1>3. /\ PairOf(r) \in User \X User
      /\ \A p \in User \X User :
           match'[p] = IF staged[r] # "NONE" /\ p = PairOf(r) THEN staged[r] ELSE match[p]
  BY <1>1, CommittedMatch
<1>4. \A p \in User \X User : match[p] # "NONE" => match'[p] # "NONE"
  BY <1>3
<1>5. MutualLikesMatch'
  <2> SUFFICES ASSUME NEW a \in User, NEW b \in User, Liked(a, b)', Liked(b, a)'
               PROVE  match'[Normalize(a, b)] # "NONE"
    BY DEF MutualLikesMatch
  <2>1. Normalize(a, b) \in User \X User /\ Normalize(a, b) = Normalize(b, a)
    BY NormalizeFacts
  <2>2. CASE Liked(a, b) /\ Liked(b, a)
    BY <2>1, <2>2, <1>4 DEF MutualLikesMatch
  <2>3. CASE ~(Liked(a, b) /\ Liked(b, a))
    <3>1. /\ req[r].action \in Like
          /\ \/ a = req[r].me /\ b = req[r].other
             \/ b = req[r].me /\ a = req[r].other
      BY <1>1, <2>3 DEF Liked
    <3>2. req[r].me # req[r].other
      BY <1>1 DEF Asked, Open
    <3>3. Mutual(r)
      BY <1>1, <3>1, <3>2 DEF Mutual, Liked
    <3>4. PairOf(r) = Normalize(a, b)
      BY <3>1, <2>1 DEF PairOf
    <3> QED
      BY <1>1, <1>2, <1>3, <3>3, <3>4 DEF CreatesIfMutual
  <2> QED
    BY <2>2, <2>3
<1>6. BlockEndsMatch'
  <2> SUFFICES ASSUME NEW a \in User, NEW b \in User, <<a, b>> \in blocks
               PROVE  match'[Normalize(a, b)] # "ACTIVE"
    BY <1>1 DEF BlockEndsMatch, TypeOK
  <2>1. Normalize(a, b) \in User \X User /\ match[Normalize(a, b)] # "ACTIVE"
    BY NormalizeFacts DEF BlockEndsMatch
  <2>2. Normalize(a, b) # PairOf(r)
    BY <1>2 DEF StillMaySwipe, BlockedEitherWay, PairOf, Normalize
  <2> QED
    BY <1>3, <2>1, <2>2
<1> QED
  BY <1>5, <1>6

\* A block ends the match it has found, an unblock or an unmatch starts none.
LEMMA SerialEnd ==
  ASSUME IInv, SerialInv, NEW r \in Req, BlockCommit(r) \/ UnblockCommit(r) \/ UnmatchCommit(r)
  PROVE  MutualLikesMatch' /\ BlockEndsMatch'
<1> USE DEF IInv, SerialInv
<1>1. /\ pc[r] = "ready" /\ req[r].op # "swipe" /\ req[r] \in Request
      /\ UNCHANGED swipes
      /\ match' = match \/ match' = MatchAfter(r)
  BY DEF BlockCommit, UnblockCommit, UnmatchCommit, Asked
<1>2. \A p \in User \X User : /\ match[p] # "NONE" => match'[p] # "NONE"
                              /\ match'[p] = "ACTIVE" => match[p] = "ACTIVE"
  BY <1>1, CommittedMatch
<1>3. MutualLikesMatch'
  BY <1>1, <1>2, NormalizeFacts DEF MutualLikesMatch, Liked
<1>4. BlockEndsMatch'
  <2> SUFFICES ASSUME NEW a \in User, NEW b \in User, <<a, b>> \in blocks'
               PROVE  match'[Normalize(a, b)] # "ACTIVE"
    <3>1. blocks' \subseteq User \X User
      BY <1>1 DEF BlockCommit, UnblockCommit, UnmatchCommit, TypeOK, Request
    <3> QED
      BY <3>1 DEF BlockEndsMatch
  <2>1. Normalize(a, b) \in User \X User
    BY NormalizeFacts
  <2>2. CASE <<a, b>> \in blocks
    BY <2>1, <2>2, <1>2 DEF BlockEndsMatch
  <2>3. CASE <<a, b>> \notin blocks
    <3>1. BlockCommit(r) /\ a = req[r].me /\ b = req[r].other
      BY <2>3 DEF BlockCommit, UnblockCommit, UnmatchCommit
    <3>2. PairOf(r) = Normalize(a, b) /\ match' = MatchAfter(r) /\ req[r].op = "block"
      BY <3>1 DEF BlockCommit, PairOf
    <3>3. match[PairOf(r)] = "ACTIVE" => staged[r] # "NONE"
      BY <1>1, <3>2 DEF SeenStands, EndsIfActive, InWork, Open
    <3>4. staged[r] # "ACTIVE"
      BY <1>1 DEF StagedFits
    <3> QED
      BY <1>1, <3>2, <3>3, <3>4, CommittedMatch
  <2> QED
    BY <2>2, <2>3
<1> QED
  BY <1>3, <1>4

LEMMA SerialStep ==
  ASSUME IInv, LoadBounded, LoadBounded', SerialInv, [Next]_vars, MaxInFlight = 1
  PROVE  SerialInv'
<1> USE DEF IInv
<1>1. CASE UNCHANGED vars
  BY <1>1 DEF vars, SerialInv, OneOpen, InWork, SeenStands, StillMaySwipe, CreatesIfMutual,
     EndsIfActive, BlockedEitherWay, Mutual, Liked, PairOf, MutualLikesMatch, BlockEndsMatch
<1>2. ASSUME NEW r \in Req, Step(r)
      PROVE  SerialInv'
  <2>1. OneOpen' /\ SeenStands'
    BY <1>2, Alone, SeenStep DEF SerialInv, OneOpen
  <2>2. CASE UNCHANGED <<swipes, blocks, match>>
    BY <2>1, <2>2 DEF SerialInv, MutualLikesMatch, BlockEndsMatch, Liked
  <2>3. CASE SwipeCommit(r)
    BY <2>1, <2>3, SerialSwipe DEF SerialInv
  <2>4. CASE BlockCommit(r) \/ UnblockCommit(r) \/ UnmatchCommit(r)
    BY <2>1, <2>4, SerialEnd DEF SerialInv
  <2>5. \/ UNCHANGED <<swipes, blocks, match>>
        \/ SwipeCommit(r) \/ BlockCommit(r) \/ UnblockCommit(r) \/ UnmatchCommit(r)
    <3> USE DEF tables
    <3>1. CASE Arrive(r)
      BY <3>1 DEF Arrive, SwipeCheck, BlockCheck, UnblockDelete, UnmatchRead
    <3>2. CASE Continue(r)
      BY <3>2 DEF Continue, SwipeInsert, SwipeRead, SwipeInsertMatch, BlockInsert, BlockRead,
         BlockEndMatch, UnmatchWrite
    <3> QED
      BY <1>2, <3>1, <3>2 DEF Step, Fail, ChangeAccount
  <2> QED
    BY <2>2, <2>3, <2>4, <2>5
<1> QED
  BY <1>1, <1>2, NextIsStep

LEMMA SerialInit == Init => SerialInv
  BY DEF Init, SerialInv, OneOpen, InWork, Open, SeenStands, MutualLikesMatch, BlockEndsMatch, Liked

\* The strengthened invariant of a serial load.
THEOREM SerialInvariant == MaxInFlight = 1 => (Spec => []SerialInv)
<1> SUFFICES ASSUME MaxInFlight = 1 PROVE Spec => []SerialInv
  OBVIOUS
<1>1. IInv /\ LoadBounded /\ LoadBounded' /\ SerialInv /\ [Next]_vars => SerialInv'
  BY SerialStep
<1> QED
  BY <1>1, SerialInit, Invariant, LoadLimit, PTL DEF Spec

\* Served one at a time, two users who like each other have a match.
THEOREM MutualLikesSuffice == MaxInFlight = 1 => (Spec => []MutualLikesMatch)
<1>1. SerialInv => MutualLikesMatch
  BY DEF SerialInv
<1> QED
  BY <1>1, SerialInvariant, PTL

\* Served one at a time, no active match survives a block.
THEOREM BlockEnds == MaxInFlight = 1 => (Spec => []BlockEndsMatch)
<1>1. SerialInv => BlockEndsMatch
  BY DEF SerialInv
<1> QED
  BY <1>1, SerialInvariant, PTL

\* A match is born between two users who may still call.
LEMMA ReachableStep ==
  ASSUME IInv, SerialInv, [Next]_vars, NEW a \in User, NEW b \in User,
         match[<<a, b>>] = "NONE", match'[<<a, b>>] = "ACTIVE"
  PROVE  CanCall(account[a]) /\ CanCall(account[b])
<1> USE DEF IInv, SerialInv
<1>1. PICK r \in Req : SwipeCommit(r) \/ BlockCommit(r) \/ UnmatchCommit(r)
  BY WhoWrites
<1>2. pc[r] = "ready" /\ match' = MatchAfter(r)
  BY <1>1 DEF SwipeCommit, BlockCommit, UnmatchCommit
<1>3. req[r].op = "swipe" /\ PairOf(r) = <<a, b>>
  BY <1>2, CommittedMatch
<1>4. StillMaySwipe(r)
  BY <1>2, <1>3 DEF SeenStands, InWork, Open
<1>5. CanCall(account[req[r].me]) /\ CanCall(account[req[r].other])
  BY <1>4 DEF StillMaySwipe, CanBeSwiped, CanCall
<1> QED
  BY <1>3, <1>5 DEF PairOf, Normalize

\* Served one at a time, a new match joins accounts that are neither banned
\* nor deleted.
THEOREM NewMatchReachable == MaxInFlight = 1 => (Spec => NewMatchPartnersReachable)
<1> SUFFICES ASSUME MaxInFlight = 1 PROVE Spec => NewMatchPartnersReachable
  OBVIOUS
<1>1. IInv /\ SerialInv /\ [Next]_vars =>
        [\A a, b \in User :
           match[<<a, b>>] = "NONE" /\ match'[<<a, b>>] = "ACTIVE"
             => CanCall(account[a]) /\ CanCall(account[b])]_vars
  BY ReachableStep
<1> QED
  BY <1>1, Invariant, SerialInvariant, PTL DEF Spec, NewMatchPartnersReachable

=============================================================================
