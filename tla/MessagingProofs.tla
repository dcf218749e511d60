-------------------------- MODULE MessagingProofs --------------------------
(***************************************************************************)
(* Theorems about Messaging, for every set of users, discovery requests    *)
(* and messaging requests, every ReadLimit and every degree of concurrency.*)
(***************************************************************************)
EXTENDS Messaging, DiscoveryProofs

-----------------------------------------------------------------------------
(***************************************************************************)
(* The inductive invariant.  Only committed requests have made rows, what  *)
(* an open one has checked (a match, a participant, the messages of        *)
(* others) is still so when it commits, and an open start has found no     *)
(* conversation older than itself.                                         *)
(***************************************************************************)
RowsTyped ==
  /\ \A c \in conversations :
       c.pair \in User \X User /\ c.id \in MsgReq /\ mpc[c.id] = "committed"
  /\ \A m \in messages : m.conv \in conversations /\ m.id \in MsgReq /\ mpc[m.id] = "committed"
  /\ mpc \in [MsgReq -> {"new", "open", "committed", "failed"}]
  /\ mreq \in [MsgReq -> {NoRequest} \cup [op : {"start"}, me : User, other : User]
                           \cup [op : {"send", "mark_read"}, me : User, conv : conversations]]
  /\ chosen \in [MsgReq -> SUBSET messages]
  /\ earlier \in [MsgReq -> SUBSET MsgReq]

EarlierCommitted == \A r \in MsgReq : \A o \in earlier[r] : mpc[o] = "committed"

StartSawMatch ==
  \A r \in MsgReq :
    mpc[r] = "open" /\ mreq[r].op = "start"
      => match[Normalize(mreq[r].me, mreq[r].other)] # "NONE"

StartSawNone ==
  \A r \in MsgReq, c \in conversations :
    mpc[r] = "open" /\ mreq[r].op = "start" /\ c.id \in earlier[r]
      => Members(c) # {mreq[r].me, mreq[r].other}

Participates ==
  \A r \in MsgReq :
    mpc[r] = "open" /\ mreq[r].op \in {"send", "mark_read"} =>
      /\ mreq[r].me \in Members(mreq[r].conv)
      /\ mreq[r].op = "mark_read" =>
           \A m \in chosen[r] : m.conv = mreq[r].conv /\ m.sender # mreq[r].me

\* One row of messages for an id, and alerts and read marks only for rows.
IdsUsed ==
  /\ \A m, n \in messages : m.id = n.id => m = n
  /\ \A a \in alerts : \E m \in messages : m.id = a[1]
  /\ \A a \in reads : \E m \in messages : m.id = a[1]

MInv ==
  /\ RowsTyped /\ EarlierCommitted /\ StartSawMatch /\ StartSawNone /\ Participates
  /\ IdsUsed /\ ConversationNeedsMatch /\ MessageStaysInside /\ OneConversationPerPair

LEMMA MInvInit == MInit => MInv
  BY DEF MInit, MInv, RowsTyped, EarlierCommitted, StartSawMatch, StartSawNone, Participates,
     IdsUsed, ConversationNeedsMatch, MessageStaysInside, OneConversationPerPair, NoRequest

\* The participants of a conversation.
LEMMA MembersFacts ==
  ASSUME NEW i, NEW a \in User, NEW b \in User
  PROVE  Members([id |-> i, pair |-> <<a, b>>]) = {a, b}
  BY DEF Members

\* A step of Discovery leaves the match rows there.
LEMMA DiscoveryKeeps ==
  ASSUME IInv, MInv, [Next]_vars, UNCHANGED mvars
  PROVE  MInv'
<1>1. \A p \in User \X User : match[p] # "NONE" => match'[p] # "NONE"
  BY ReviveStep DEF IInv
<1>2. StartSawMatch'
  <2> SUFFICES ASSUME NEW r \in MsgReq, mpc[r] = "open", mreq[r].op = "start"
               PROVE  match'[Normalize(mreq[r].me, mreq[r].other)] # "NONE"
    BY DEF StartSawMatch, mvars
  <2>1. mreq[r].me \in User /\ mreq[r].other \in User
    BY DEF MInv, RowsTyped, NoRequest
  <2> QED
    BY <1>1, <2>1, NormalizeFacts DEF MInv, StartSawMatch
<1>3. ConversationNeedsMatch'
  <2> SUFFICES ASSUME NEW c \in conversations
               PROVE  match'[Normalize(c.pair[1], c.pair[2])] # "NONE"
    BY DEF ConversationNeedsMatch, mvars
  <2>1. c.pair[1] \in User /\ c.pair[2] \in User
    BY DEF MInv, RowsTyped
  <2> QED
    BY <1>1, <2>1, NormalizeFacts DEF MInv, ConversationNeedsMatch
<1> QED
  BY <1>2, <1>3 DEF MInv, mvars, RowsTyped, EarlierCommitted, StartSawNone, Participates,
     IdsUsed, MessageStaysInside, OneConversationPerPair, Members

-----------------------------------------------------------------------------
(***************************************************************************)
(* Arrivals: no table changes, and the new request knows which requests    *)
(* had committed.                                                          *)
(***************************************************************************)
LEMMA BeginStep ==
  ASSUME MInv, NEW r \in MsgReq, mpc[r] = "new",
         NEW q \in [op : {"start"}, me : User, other : User]
                     \cup [op : {"send", "mark_read"}, me : User, conv : conversations],
         NEW s \in {"open", "committed"}, MBegin(r, q, s), UNCHANGED <<match, chat>>,
         NEW S \in SUBSET messages, chosen' = [chosen EXCEPT ![r] = S],
         q.op = "start" /\ s = "open" =>
           /\ match[Normalize(q.me, q.other)] # "NONE"
           /\ \A c \in conversations : Members(c) # {q.me, q.other},
         q.op # "start" => q.me \in Members(q.conv),
         q.op = "mark_read" => \A m \in S : m.conv = q.conv /\ m.sender # q.me
  PROVE  MInv'
<1> USE DEF MInv
<1>1. /\ mreq'[r] = q /\ mpc'[r] = s /\ chosen'[r] = S
      /\ earlier'[r] = {o \in MsgReq : mpc[o] = "committed"}
  BY DEF MBegin, RowsTyped
<1>2. \A o \in MsgReq \ {r} : /\ mreq'[o] = mreq[o] /\ mpc'[o] = mpc[o]
                             /\ chosen'[o] = chosen[o] /\ earlier'[o] = earlier[o]
  BY DEF MBegin, RowsTyped
<1>3. UNCHANGED <<conversations, messages, reads, alerts>> /\ \A c : Members(c)' = Members(c)
  BY DEF chat, Members
<1>4. RowsTyped'
  <2>1. \A o \in MsgReq : mpc[o] = "committed" => mpc'[o] = "committed"
    BY <1>2
  <2>2. /\ mpc' \in [MsgReq -> {"new", "open", "committed", "failed"}]
        /\ chosen' \in [MsgReq -> SUBSET messages] /\ earlier' \in [MsgReq -> SUBSET MsgReq]
    BY DEF RowsTyped, MBegin
  <2>3. mreq' \in [MsgReq -> {NoRequest} \cup [op : {"start"}, me : User, other : User]
                           \cup [op : {"send", "mark_read"}, me : User, conv : conversations]]
    BY DEF RowsTyped, MBegin
  <2> QED
    BY <1>3, <2>1, <2>2, <2>3 DEF RowsTyped
<1>5. EarlierCommitted'
  BY <1>1, <1>2 DEF EarlierCommitted, RowsTyped
<1>6. StartSawMatch'
  BY <1>1, <1>2 DEF StartSawMatch
<1>7. StartSawNone'
  BY <1>1, <1>2, <1>3 DEF StartSawNone
<1>8. Participates'
  <2> SUFFICES ASSUME NEW o \in MsgReq, mpc'[o] = "open", mreq'[o].op \in {"send", "mark_read"}
               PROVE  /\ mreq'[o].me \in Members(mreq'[o].conv)
                      /\ mreq'[o].op = "mark_read" =>
                           \A m \in chosen'[o] : m.conv = mreq'[o].conv /\ m.sender # mreq'[o].me
    BY <1>3 DEF Participates
  <2>1. CASE o = r
    BY <2>1, <1>1
  <2>2. CASE o # r
    BY <2>2, <1>2 DEF Participates
  <2> QED
    BY <2>1, <2>2
<1>9. IdsUsed' /\ ConversationNeedsMatch' /\ MessageStaysInside'
  BY <1>3 DEF IdsUsed, ConversationNeedsMatch, MessageStaysInside
<1>10. OneConversationPerPair'
  <2>1. \A c \in conversations : c.id # r /\ c.id \in MsgReq
    BY DEF RowsTyped
  <2> QED
    BY <1>2, <1>3, <2>1 DEF OneConversationPerPair
<1> QED
  BY <1>4, <1>5, <1>6, <1>7, <1>8, <1>9, <1>10

(***************************************************************************)
(* Commits.                                                                *)
(***************************************************************************)
\* What every commit does to the requests.
LEMMA EndFacts ==
  ASSUME MInv, NEW r \in MsgReq, NEW s \in {"committed", "failed"}, mpc[r] = "open",
         mpc' = [mpc EXCEPT ![r] = s], UNCHANGED <<mreq, chosen, earlier>>
  PROVE  /\ mpc'[r] = s
         /\ \A o \in MsgReq \ {r} : mpc'[o] = mpc[o]
         /\ mpc' \in [MsgReq -> {"new", "open", "committed", "failed"}]
         /\ \A o \in MsgReq : mpc[o] = "committed" => mpc'[o] = "committed"
         /\ \A o \in MsgReq : r \notin earlier[o]
         /\ EarlierCommitted'
<1> USE DEF MInv, RowsTyped
<1>1. mpc'[r] = s /\ \A o \in MsgReq \ {r} : mpc'[o] = mpc[o]
  OBVIOUS
<1>2. \A o \in MsgReq : mpc[o] = "committed" => mpc'[o] = "committed"
  BY <1>1
<1>3. \A o \in MsgReq : r \notin earlier[o]
  BY DEF EarlierCommitted
<1>4. EarlierCommitted'
  BY <1>2 DEF EarlierCommitted
<1> QED
  BY <1>1, <1>2, <1>3, <1>4

LEMMA StartStep ==
  ASSUME MInv, NEW r \in MsgReq, StartCommit(r), UNCHANGED match
  PROVE  MInv'
<1> USE DEF MInv, MEnd
<1> DEFINE c == [id |-> r, pair |-> <<mreq[r].me, mreq[r].other>>]
<1>1. /\ mpc[r] = "open" /\ mreq[r].op = "start"
      /\ mpc' = [mpc EXCEPT ![r] = "committed"] /\ UNCHANGED <<mreq, chosen, earlier>>
      /\ conversations' = conversations \cup {c} /\ UNCHANGED <<messages, reads, alerts>>
  BY DEF StartCommit
<1>2. /\ mpc'[r] = "committed" /\ \A o \in MsgReq \ {r} : mpc'[o] = mpc[o]
      /\ mpc' \in [MsgReq -> {"new", "open", "committed", "failed"}]
      /\ \A o \in MsgReq : mpc[o] = "committed" => mpc'[o] = "committed"
      /\ \A o \in MsgReq : r \notin earlier[o]
      /\ EarlierCommitted'
  BY <1>1, EndFacts
<1>3. mreq[r].me \in User /\ mreq[r].other \in User
  BY <1>1 DEF RowsTyped, NoRequest
<1>4. Members(c) = {mreq[r].me, mreq[r].other} /\ \A d : Members(d)' = Members(d)
  BY <1>3, MembersFacts DEF Members
<1>5. c.id = r /\ c.pair = <<mreq[r].me, mreq[r].other>> /\ c.pair \in User \X User
      /\ c.pair[1] = mreq[r].me /\ c.pair[2] = mreq[r].other
  BY <1>3
<1> HIDE DEF c
<1>6. RowsTyped'
  <2>1. \A d \in conversations' :
          d.pair \in User \X User /\ d.id \in MsgReq /\ mpc'[d.id] = "committed"
    BY <1>1, <1>2, <1>5 DEF RowsTyped
  <2>2. mreq' \in [MsgReq -> {NoRequest} \cup [op : {"start"}, me : User, other : User]
                           \cup [op : {"send", "mark_read"}, me : User, conv : conversations']]
    BY <1>1 DEF RowsTyped
  <2>3. \A m \in messages' : m.conv \in conversations' /\ m.id \in MsgReq /\ mpc'[m.id] = "committed"
    BY <1>1, <1>2 DEF RowsTyped
  <2> QED
    BY <1>1, <1>2, <2>1, <2>2, <2>3 DEF RowsTyped
<1>7. StartSawMatch' /\ Participates'
  BY <1>1, <1>2, <1>4 DEF StartSawMatch, Participates
<1>8. StartSawNone'
  BY <1>1, <1>2, <1>4, <1>5 DEF StartSawNone
<1>9. ConversationNeedsMatch'
  BY <1>1, <1>5 DEF ConversationNeedsMatch, StartSawMatch
<1>10. IdsUsed' /\ MessageStaysInside'
  BY <1>1, <1>4 DEF IdsUsed, MessageStaysInside
<1>11. OneConversationPerPair'
  <2> SUFFICES ASSUME NEW d \in conversations', NEW e \in conversations', Members(d) = Members(e)
               PROVE  d.id \notin earlier[e.id]
    BY <1>1, <1>4 DEF OneConversationPerPair
  <2>1. CASE d = c
    BY <2>1, <1>1, <1>2, <1>5 DEF RowsTyped
  <2>2. CASE e = c /\ d \in conversations
    BY <2>2, <1>1, <1>4, <1>5 DEF StartSawNone
  <2>3. CASE d \in conversations /\ e \in conversations
    BY <2>3 DEF OneConversationPerPair
  <2> QED
    BY <1>1, <2>1, <2>2, <2>3
<1> QED
  BY <1>2, <1>6, <1>7, <1>8, <1>9, <1>10, <1>11

LEMMA SendStep ==
  ASSUME MInv, NEW r \in MsgReq, SendCommit(r), UNCHANGED match
  PROVE  MInv'
<1> USE DEF MInv, MEnd
<1> DEFINE c == mreq[r].conv
           a == mreq[r].me
           n == [id |-> r, conv |-> c, sender |-> a]
<1>1. /\ mpc[r] = "open" /\ mreq[r].op = "send"
      /\ mpc' = [mpc EXCEPT ![r] = "committed"] /\ UNCHANGED <<mreq, chosen, earlier>>
      /\ messages' = messages \cup {n} /\ UNCHANGED <<conversations, reads>>
      /\ alerts' = alerts \cup {<<r, u>> : u \in Members(c) \ {a}}
  BY DEF SendCommit, Others
<1>2. /\ mpc'[r] = "committed" /\ \A o \in MsgReq \ {r} : mpc'[o] = mpc[o]
      /\ mpc' \in [MsgReq -> {"new", "open", "committed", "failed"}]
      /\ \A o \in MsgReq : mpc[o] = "committed" => mpc'[o] = "committed"
      /\ EarlierCommitted'
  BY <1>1, EndFacts
<1>3. c \in conversations /\ a \in Members(c)
  BY <1>1 DEF RowsTyped, NoRequest, Participates
<1>4. \A d : Members(d)' = Members(d) /\ Members(d) \subseteq User
  BY DEF Members
<1>5. n.id = r /\ n.conv = c /\ n.sender = a
  OBVIOUS
<1>6. \A m \in messages : m.id # r
  BY <1>1 DEF RowsTyped
<1>7. \A x \in alerts \cup reads : x[1] # r
  BY <1>6 DEF IdsUsed
<1> HIDE DEF n, c, a
<1>8. RowsTyped'
  <2>1. \A m \in messages' : m.conv \in conversations /\ m.id \in MsgReq /\ mpc'[m.id] = "committed"
    BY <1>1, <1>2, <1>3, <1>5 DEF RowsTyped
  <2>2. chosen' \in [MsgReq -> SUBSET messages']
    BY <1>1 DEF RowsTyped
  <2>3. \A d \in conversations' :
          d.pair \in User \X User /\ d.id \in MsgReq /\ mpc'[d.id] = "committed"
    BY <1>1, <1>2 DEF RowsTyped
  <2> QED
    BY <1>1, <1>2, <2>1, <2>2, <2>3 DEF RowsTyped
<1>9. StartSawMatch' /\ StartSawNone' /\ Participates'
  BY <1>1, <1>2, <1>4 DEF StartSawMatch, StartSawNone, Participates
<1>10. IdsUsed'
  <2>1. \A x \in alerts' : \E m \in messages' : m.id = x[1]
    BY <1>1, <1>5 DEF IdsUsed
  <2> QED
    BY <1>1, <1>5, <1>6, <2>1 DEF IdsUsed
<1>11. MessageStaysInside'
  <2> SUFFICES ASSUME NEW m \in messages'
               PROVE  /\ m.sender \in Members(m.conv)
                      /\ {u \in User : <<m.id, u>> \in alerts'} = Members(m.conv) \ {m.sender}
                      /\ {u \in User : <<m.id, u>> \in reads'} \subseteq Members(m.conv) \ {m.sender}
    BY <1>4 DEF MessageStaysInside
  <2>1. CASE m = n
    <3>1. \A u \in User : <<r, u>> \in alerts' <=> u \in Members(c) \ {a}
      BY <1>1, <1>7
    <3>2. \A u \in User : <<r, u>> \notin reads'
      BY <1>1, <1>7
    <3> QED
      BY <2>1, <1>3, <1>4, <1>5, <3>1, <3>2
  <2>2. CASE m \in messages
    <3>1. \A u \in User : <<m.id, u>> \in alerts' <=> <<m.id, u>> \in alerts
      BY <2>2, <1>1, <1>6
    <3> QED
      BY <2>2, <1>1, <3>1 DEF MessageStaysInside
  <2> QED
    BY <1>1, <2>1, <2>2
<1>12. ConversationNeedsMatch' /\ OneConversationPerPair'
  BY <1>1, <1>4 DEF ConversationNeedsMatch, OneConversationPerPair
<1> QED
  BY <1>2, <1>8, <1>9, <1>10, <1>11, <1>12

LEMMA ReadStep ==
  ASSUME MInv, NEW r \in MsgReq, ReadCommit(r), UNCHANGED match
  PROVE  MInv'
<1> USE DEF MInv, MEnd
<1> DEFINE a == mreq[r].me
<1>1. /\ mpc[r] = "open" /\ mreq[r].op = "mark_read"
      /\ mpc' = [mpc EXCEPT ![r] = "committed"] /\ UNCHANGED <<mreq, chosen, earlier>>
      /\ reads' = reads \cup {<<m.id, a>> : m \in chosen[r]}
      /\ UNCHANGED <<conversations, messages, alerts>>
  BY DEF ReadCommit
<1>2. /\ \A o \in MsgReq \ {r} : mpc'[o] = mpc[o]
      /\ mpc'[r] = "committed"
      /\ mpc' \in [MsgReq -> {"new", "open", "committed", "failed"}]
      /\ \A o \in MsgReq : mpc[o] = "committed" => mpc'[o] = "committed"
      /\ EarlierCommitted'
  BY <1>1, EndFacts
<1>3. \A d : Members(d)' = Members(d)
  BY DEF Members
<1>4. chosen[r] \subseteq messages
  BY DEF RowsTyped
<1>5. \A m \in chosen[r] : m.sender # a /\ a \in Members(m.conv)
  BY <1>1 DEF Participates
<1> HIDE DEF a
<1>6. RowsTyped'
  BY <1>1, <1>2 DEF RowsTyped
<1>7. StartSawMatch' /\ StartSawNone' /\ Participates'
  BY <1>1, <1>2, <1>3 DEF StartSawMatch, StartSawNone, Participates
<1>8. IdsUsed'
  <2>1. \A x \in reads' : \E m \in messages : m.id = x[1]
    BY <1>1, <1>4 DEF IdsUsed
  <2> QED
    BY <1>1, <2>1 DEF IdsUsed
<1>9. MessageStaysInside'
  <2> SUFFICES ASSUME NEW m \in messages, NEW u \in User, <<m.id, u>> \in reads'
               PROVE  u \in Members(m.conv) \ {m.sender}
    BY <1>1, <1>3 DEF MessageStaysInside
  <2>1. CASE <<m.id, u>> \in reads
    BY <2>1 DEF MessageStaysInside
  <2>2. CASE \E n \in chosen[r] : <<m.id, u>> = <<n.id, a>>
    <3> PICK n \in chosen[r] : <<m.id, u>> = <<n.id, a>>
      BY <2>2
    <3>1. n = m /\ u = a
      BY <1>4 DEF IdsUsed
    <3> QED
      BY <1>5, <3>1
  <2> QED
    BY <1>1, <2>1, <2>2
<1>10. ConversationNeedsMatch' /\ OneConversationPerPair'
  BY <1>1, <1>3 DEF ConversationNeedsMatch, OneConversationPerPair
<1> QED
  BY <1>2, <1>6, <1>7, <1>8, <1>9, <1>10

LEMMA FailStep ==
  ASSUME MInv, NEW r \in MsgReq, MFail(r), UNCHANGED match
  PROVE  MInv'
<1> USE DEF MInv
<1>1. /\ mpc[r] = "open" /\ mpc' = [mpc EXCEPT ![r] = "failed"]
      /\ UNCHANGED <<mreq, chosen, earlier, conversations, messages, reads, alerts>>
  BY DEF MFail, chat
<1>2. /\ \A o \in MsgReq \ {r} : mpc'[o] = mpc[o]
      /\ mpc'[r] = "failed"
      /\ mpc' \in [MsgReq -> {"new", "open", "committed", "failed"}]
      /\ \A o \in MsgReq : mpc[o] = "committed" => mpc'[o] = "committed"
      /\ EarlierCommitted'
  BY <1>1, EndFacts
<1>3. \A d : Members(d)' = Members(d)
  BY DEF Members
<1>4. RowsTyped'
  BY <1>1, <1>2 DEF RowsTyped
<1>5. StartSawMatch' /\ StartSawNone' /\ Participates'
  BY <1>1, <1>2, <1>3 DEF StartSawMatch, StartSawNone, Participates
<1> QED
  BY <1>1, <1>2, <1>3, <1>4, <1>5
     DEF IdsUsed, ConversationNeedsMatch, MessageStaysInside, OneConversationPerPair

-----------------------------------------------------------------------------
LEMMA MessagingStep ==
  ASSUME IInv, MInv, NEW r \in MsgReq, MStep(r), UNCHANGED vars
  PROVE  MInv'
<1> USE DEF MAdmit
<1>0. UNCHANGED match
  BY DEF vars
<1>1. \A c \in conversations : \A a \in Members(c) : a \in User
  BY DEF Members
<1>2. chosen[r] \in SUBSET messages /\ chosen = [chosen EXCEPT ![r] = chosen[r]]
  BY DEF MInv, RowsTyped
<1>3. ASSUME NEW a \in User, NEW b \in User, StartCheck(r, a, b)
      PROVE  MInv'
  <2> DEFINE q == [op |-> "start", me |-> a, other |-> b]
             s == IF Direct(a, b) # {} THEN "committed" ELSE "open"
  <2>1. /\ mpc[r] = "new" /\ MBegin(r, q, s) /\ UNCHANGED <<match, chat>>
        /\ chosen' = [chosen EXCEPT ![r] = chosen[r]]
        /\ match[Normalize(a, b)] # "NONE"
    BY <1>0, <1>2, <1>3 DEF StartCheck, MayStart
  <2>2. s = "open" => \A c \in conversations : Members(c) # {a, b}
    BY DEF Direct
  <2>3. s \in {"open", "committed"}
    OBVIOUS
  <2>4. q \in [op : {"start"}, me : User, other : User] /\ q.op = "start" /\ q.me = a /\ q.other = b
    OBVIOUS
  <2> HIDE DEF q, s
  <2> QED
    BY <1>2, <2>1, <2>2, <2>3, <2>4, BeginStep
<1>4. ASSUME NEW a \in User, NEW c \in conversations, SendCheck(r, a, c)
      PROVE  MInv'
  <2> DEFINE q == [op |-> "send", me |-> a, conv |-> c]
  <2>1. /\ mpc[r] = "new" /\ MBegin(r, q, "open") /\ UNCHANGED <<match, chat>>
        /\ chosen' = [chosen EXCEPT ![r] = chosen[r]] /\ a \in Members(c)
    BY <1>0, <1>2, <1>4 DEF SendCheck
  <2>2. q \in [op : {"send", "mark_read"}, me : User, conv : conversations]
        /\ q.op = "send" /\ q.me = a /\ q.conv = c
    OBVIOUS
  <2> HIDE DEF q
  <2> QED
    BY <1>2, <2>1, <2>2, BeginStep
<1>5. ASSUME NEW a \in User, NEW c \in conversations, ReadCheck(r, a, c)
      PROVE  MInv'
  <2> DEFINE q == [op |-> "mark_read", me |-> a, conv |-> c]
  <2>1. /\ mpc[r] = "new" /\ MBegin(r, q, "open") /\ UNCHANGED <<match, chat>>
        /\ a \in Members(c)
    BY <1>0, <1>5 DEF ReadCheck
  <2>2. PICK S \in Loads(c, a) : chosen' = [chosen EXCEPT ![r] = S]
    BY <1>5 DEF ReadCheck
  <2>3. S \in SUBSET messages /\ \A m \in S : m.conv = c /\ m.sender # a
    BY <2>2 DEF Loads, Pages, Unread
  <2>4. q \in [op : {"send", "mark_read"}, me : User, conv : conversations]
        /\ q.op = "mark_read" /\ q.me = a /\ q.conv = c
    OBVIOUS
  <2> HIDE DEF q
  <2> QED
    BY <2>1, <2>2, <2>3, <2>4, BeginStep
<1> QED
  BY <1>0, <1>3, <1>4, <1>5, StartStep, SendStep, ReadStep, FailStep DEF MStep

LEMMA MInvStep == IInv /\ MInv /\ [MNext]_<<vars, mvars>> => MInv'
<1> SUFFICES ASSUME IInv, MInv, [MNext]_<<vars, mvars>>
             PROVE  MInv'
  OBVIOUS
<1>1. CASE [Next]_vars /\ UNCHANGED mvars
  BY <1>1, DiscoveryKeeps
<1>2. CASE UNCHANGED vars /\ \E r \in MsgReq : MStep(r)
  BY <1>2, MessagingStep
<1> QED
  BY <1>1, <1>2 DEF MNext

\* Discovery is not disturbed by messaging.
LEMMA DiscoveryInside == MSpec => Spec
<1>1. [MNext]_<<vars, mvars>> => [Next]_vars
  BY DEF MNext
<1> QED
  BY <1>1, PTL DEF MSpec, Spec

\* In every execution, what messaging requests have checked still holds
\* when they commit.
THEOREM MessagingInvariant == MSpec => []MInv
<1>1. MSpec => []IInv
  BY DiscoveryInside, Invariant, PTL
<1> QED
  BY <1>1, MInvInit, MInvStep, PTL DEF MSpec

\* However matches end and conversations start beside each other, only two
\* users who were matched ever have a conversation.
THEOREM ConversationsNeedMatches == MSpec => []ConversationNeedsMatch
<1>1. MInv => ConversationNeedsMatch
  BY DEF MInv
<1> QED
  BY <1>1, MessagingInvariant, PTL

\* Hence only two users each of whom has liked the other.
THEOREM ConversationsNeedLikes ==
  MSpec => [](\A c \in conversations : Liked(c.pair[1], c.pair[2]) /\ Liked(c.pair[2], c.pair[1]))
<1>1. IInv /\ MInv =>
        \A c \in conversations : Liked(c.pair[1], c.pair[2]) /\ Liked(c.pair[2], c.pair[1])
  <2> SUFFICES ASSUME IInv, MInv, NEW c \in conversations
               PROVE  Liked(c.pair[1], c.pair[2]) /\ Liked(c.pair[2], c.pair[1])
    OBVIOUS
  <2> DEFINE a == c.pair[1]
             b == c.pair[2]
  <2>1. a \in User /\ b \in User /\ match[Normalize(a, b)] # "NONE"
    BY DEF MInv, RowsTyped, ConversationNeedsMatch
  <2> HIDE DEF a, b
  <2>2. \A x, y \in User : match[<<x, y>>] # "NONE" => Liked(x, y) /\ Liked(y, x)
    BY DEF IInv, MatchNeedsMutualLikes
  <2>3. Liked(a, b) /\ Liked(b, a)
    BY <2>1, <2>2, NormalizeFacts
  <2> QED
    BY <2>3 DEF a, b
<1>2. MSpec => []IInv
  BY DiscoveryInside, Invariant, PTL
<1> QED
  BY <1>1, <1>2, MessagingInvariant, PTL

\* Messages, alerts and read marks stay between the two of a conversation.
THEOREM MessagesStayInside == MSpec => []MessageStaysInside
<1>1. MInv => MessageStaysInside
  BY DEF MInv
<1> QED
  BY <1>1, MessagingInvariant, PTL

\* Two conversations of one pair come only from starts that overlapped.
THEOREM ConversationsOverlap == MSpec => []OneConversationPerPair
<1>1. MInv => OneConversationPerPair
  BY DEF MInv
<1> QED
  BY <1>1, MessagingInvariant, PTL

-----------------------------------------------------------------------------
(***************************************************************************)
(* What makes MarkReadTakesAll inductive: a mark_read that has loaded its  *)
(* page holds every unread message older than itself, or a full page.      *)
(* Messages never change and none is ever given the id of an older         *)
(* request, so what counts as older is fixed when the request arrives.     *)
(***************************************************************************)
OldFor(r) ==
  {m \in messages : m.id \in earlier[r] /\ m.conv = mreq[r].conv /\ m.sender # mreq[r].me}

ReadOf(r) == {m \in OldFor(r) : <<m.id, mreq[r].me>> \in reads}

HoldsPage(r) ==
  /\ chosen[r] \subseteq OldFor(r)
  /\ \/ OldFor(r) \subseteq ReadOf(r) \cup chosen[r]
     \/ Cardinality(chosen[r]) >= ReadLimit

\* What a mark_read that has committed leaves.
Took(r) == OldFor(r) \subseteq ReadOf(r) \/ Cardinality(ReadOf(r)) >= ReadLimit

ReadInv ==
  /\ IsFiniteSet(messages)
  /\ \A r \in MsgReq : mreq[r].op = "mark_read" =>
       /\ mpc[r] = "open" => HoldsPage(r)
       /\ mpc[r] = "committed" => Took(r)

\* A page that is held, and what a page has taken, stays while read marks
\* are added.
LEMMA PageKept ==
  ASSUME NEW o \in MsgReq, IsFiniteSet(messages), OldFor(o)' = OldFor(o),
         mreq'[o] = mreq[o], chosen'[o] = chosen[o], reads \subseteq reads'
  PROVE  /\ HoldsPage(o) => HoldsPage(o)'
         /\ Took(o) => Took(o)'
<1>1. ReadOf(o) \subseteq ReadOf(o)' /\ ReadOf(o)' \subseteq OldFor(o) /\ OldFor(o) \subseteq messages
  BY DEF ReadOf, OldFor
<1>2. IsFiniteSet(ReadOf(o)')
  BY <1>1, FS_Subset
<1>3. IsFiniteSet(ReadOf(o)) /\ Cardinality(ReadOf(o)) <= Cardinality(ReadOf(o)')
  BY <1>1, <1>2, FS_Subset
<1>4. Cardinality(ReadOf(o)) \in Nat /\ Cardinality(ReadOf(o)') \in Nat
  BY <1>2, <1>3, FS_CardinalityType
<1>5. HoldsPage(o) => HoldsPage(o)'
  BY <1>1 DEF HoldsPage
<1>6. Took(o) => Took(o)'
  BY <1>1, <1>3, <1>4, MsgAssumption DEF Took
<1> QED
  BY <1>5, <1>6

\* A step of r, which no request counts as older while r is open.
LEMMA OthersKept ==
  ASSUME MInv, ReadInv, NEW r \in MsgReq, reads \subseteq reads',
         \A o \in MsgReq \ {r} : /\ mreq'[o] = mreq[o] /\ mpc'[o] = mpc[o]
                                 /\ chosen'[o] = chosen[o] /\ earlier'[o] = earlier[o],
         \/ messages' = messages
         \/ mpc[r] = "open" /\ \E n : n.id = r /\ messages' = messages \cup {n}
  PROVE  /\ IsFiniteSet(messages')
         /\ \A o \in MsgReq \ {r} : mreq'[o].op = "mark_read" =>
              /\ mpc'[o] = "open" => HoldsPage(o)'
              /\ mpc'[o] = "committed" => Took(o)'
<1> USE DEF ReadInv
<1>1. IsFiniteSet(messages')
  BY FS_AddElement
<1>2. ASSUME NEW o \in MsgReq \ {r} PROVE OldFor(o)' = OldFor(o)
  <2>1. mpc[r] = "open" => r \notin earlier[o]
    BY DEF MInv, EarlierCommitted
  <2> QED
    BY <1>2, <2>1 DEF OldFor
<1> QED
  BY <1>1, <1>2, PageKept

LEMMA ReadInvStep ==
  ASSUME MInv, ReadInv, NEW r \in MsgReq, MStep(r)
  PROVE  ReadInv'
<1> USE DEF MAdmit, MBegin, MEnd, chat
<1>1. DOMAIN mreq = MsgReq /\ DOMAIN mpc = MsgReq /\ DOMAIN chosen = MsgReq /\ DOMAIN earlier = MsgReq
  BY DEF MInv, RowsTyped
<1>2. \A o \in MsgReq \ {r} : /\ mreq'[o] = mreq[o] /\ mpc'[o] = mpc[o]
                              /\ chosen'[o] = chosen[o] /\ earlier'[o] = earlier[o]
  BY <1>1 DEF MStep, StartCheck, SendCheck, ReadCheck, StartCommit, SendCommit, ReadCommit, MFail
<1>3. reads \subseteq reads'
  BY DEF MStep, StartCheck, SendCheck, ReadCheck, StartCommit, SendCommit, ReadCommit, MFail
<1>4. \/ messages' = messages
      \/ mpc[r] = "open" /\ \E n : n.id = r /\ messages' = messages \cup {n}
  BY DEF MStep, StartCheck, SendCheck, ReadCheck, StartCommit, SendCommit, ReadCommit, MFail
<1>5. /\ IsFiniteSet(messages')
      /\ \A o \in MsgReq \ {r} : mreq'[o].op = "mark_read" =>
           /\ mpc'[o] = "open" => HoldsPage(o)'
           /\ mpc'[o] = "committed" => Took(o)'
  BY <1>2, <1>3, <1>4, OthersKept
<1> SUFFICES ASSUME mreq'[r].op = "mark_read"
             PROVE  /\ mpc'[r] = "open" => HoldsPage(r)'
                    /\ mpc'[r] = "committed" => Took(r)'
  BY <1>5 DEF ReadInv
<1>6. ASSUME NEW a \in User, NEW c \in conversations, ReadCheck(r, a, c)
      PROVE  mpc'[r] = "open" /\ HoldsPage(r)'
  <2>1. /\ mpc'[r] = "open" /\ mreq'[r] = [op |-> "mark_read", me |-> a, conv |-> c]
        /\ earlier'[r] = {o \in MsgReq : mpc[o] = "committed"}
        /\ UNCHANGED <<messages, reads>>
    BY <1>1, <1>6 DEF ReadCheck
  <2>2. PICK S \in Loads(c, a) : chosen' = [chosen EXCEPT ![r] = S]
    BY <1>6 DEF ReadCheck
  <2>3. chosen'[r] = S
    BY <1>1, <2>2
  <2>4. OldFor(r)' = {m \in messages : m.conv = c /\ m.sender # a}
    BY <2>1 DEF OldFor, MInv, RowsTyped
  <2>5. OldFor(r)' \subseteq ReadOf(r)' \cup Unread(c, a) /\ Unread(c, a) \subseteq OldFor(r)'
    BY <2>1, <2>4 DEF ReadOf, Unread
  <2>6. S \subseteq Unread(c, a) /\ (S = Unread(c, a) \/ Cardinality(S) = ReadLimit)
    BY <2>2 DEF Loads, Pages
  <2> QED
    BY <2>1, <2>3, <2>5, <2>6, MsgAssumption DEF HoldsPage
<1>7. CASE ReadCommit(r)
  <2>1. /\ mpc[r] = "open" /\ mpc'[r] = "committed" /\ mreq[r].op = "mark_read"
        /\ UNCHANGED <<messages, mreq, chosen, earlier>>
        /\ reads' = reads \cup {<<m.id, mreq[r].me>> : m \in chosen[r]}
    BY <1>1, <1>7 DEF ReadCommit
  <2>2. HoldsPage(r)
    BY <2>1 DEF ReadInv
  <2>3. OldFor(r)' = OldFor(r)
    BY <2>1 DEF OldFor
  <2>4. ReadOf(r) \cup chosen[r] \subseteq ReadOf(r)'
    BY <2>1, <2>2, <2>3 DEF ReadOf, HoldsPage
  <2>5. CASE OldFor(r) \subseteq ReadOf(r) \cup chosen[r]
    <3>1. OldFor(r)' \subseteq ReadOf(r)'
      BY <2>3, <2>4, <2>5
    <3>2. Took(r)'
      BY <3>1 DEF Took
    <3> QED
      BY <2>1, <3>2
  <2>6. CASE Cardinality(chosen[r]) >= ReadLimit
    <3>1. ReadOf(r)' \subseteq messages
      BY <2>1 DEF ReadOf, OldFor
    <3>2. IsFiniteSet(ReadOf(r)')
      BY <3>1, FS_Subset DEF ReadInv
    <3>3. IsFiniteSet(chosen[r]) /\ Cardinality(chosen[r]) <= Cardinality(ReadOf(r)')
      BY <2>4, <3>2, FS_Subset
    <3>4. Cardinality(chosen[r]) \in Nat /\ Cardinality(ReadOf(r)') \in Nat
      BY <3>2, <3>3, FS_CardinalityType
    <3>5. Took(r)'
      BY <2>6, <3>3, <3>4, MsgAssumption DEF Took
    <3> QED
      BY <2>1, <3>5
  <2> QED
    BY <2>1, <2>2, <2>5, <2>6 DEF HoldsPage
<1>8. CASE MFail(r)
  BY <1>1, <1>8 DEF MFail
<1>9. CASE StartCommit(r) \/ SendCommit(r)
  BY <1>9 DEF StartCommit, SendCommit
<1>10. ASSUME NEW a \in User, NEW b \in User, StartCheck(r, a, b)
       PROVE  FALSE
  BY <1>1, <1>10 DEF StartCheck
<1>11. ASSUME NEW a \in User, NEW c \in conversations, SendCheck(r, a, c)
       PROVE  FALSE
  BY <1>1, <1>11 DEF SendCheck
<1> QED
  BY <1>6, <1>7, <1>8, <1>9, <1>10, <1>11 DEF MStep

\* Of the messages older than it, a mark_read that has committed leaves
\* unread only what exceeds a full page, whatever is sent or read beside it.
THEOREM MarkReadTakes == MSpec => []MarkReadTakesAll
<1>1. Init /\ MInit => ReadInv
  BY FS_EmptySet DEF MInit, ReadInv, NoRequest
<1>2. MInv /\ ReadInv /\ [MNext]_<<vars, mvars>> => ReadInv'
  <2> SUFFICES ASSUME MInv, ReadInv, [MNext]_<<vars, mvars>> PROVE ReadInv'
    OBVIOUS
  <2>1. CASE UNCHANGED mvars
    BY <2>1 DEF mvars, ReadInv, HoldsPage, Took, OldFor, ReadOf
  <2>2. ASSUME NEW r \in MsgReq, MStep(r) PROVE ReadInv'
    BY <2>2, ReadInvStep
  <2> QED
    BY <2>1, <2>2 DEF MNext
<1>3. ReadInv => MarkReadTakesAll
  BY DEF ReadInv, MarkReadTakesAll, Took, ReadOf, OldFor
<1> QED
  BY <1>1, <1>2, <1>3, MessagingInvariant, PTL DEF MSpec

=============================================================================
