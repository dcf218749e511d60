----------------------------- MODULE Messaging -----------------------------
(***************************************************************************)
(* Conversations and messages, beside the matches and blocks of Discovery  *)
(* that they are checked against.  Like there, a request is one            *)
(* transaction at READ COMMITTED and a member of MsgReq is one request; it *)
(* also serves as the id of the row the request creates.  A request that a *)
(* check refuses changes nothing and is left out.                          *)
(***************************************************************************)
EXTENDS Discovery

CONSTANTS
  MsgReq,     \* the messaging requests that may arrive
  MsgOps,     \* their kinds
  ReadLimit   \* how many messages one mark_read loads (500 in the code)

ASSUME MsgAssumption ==
  MsgOps \subseteq {"start", "send", "mark_read"} /\ ReadLimit \in Nat \ {0}

VARIABLES
  conversations,  \* rows [id, pair]: a conversation and its two participants
  messages,       \* rows [id, conv, sender]
  reads,          \* pairs <<message id, reader>>: read_at was set for reader
  alerts,         \* NEW_MESSAGE notifications <<message id, recipient>>
  mreq,           \* what each messaging request asks for
  mpc,            \* how far it has come
  chosen,         \* the messages a mark_read has loaded
  earlier         \* the messaging requests answered when each arrived

chat  == <<conversations, messages, reads, alerts>>
mvars == <<conversations, messages, reads, alerts, mreq, mpc, chosen, earlier>>

MInit ==
  /\ conversations = {} /\ messages = {} /\ reads = {} /\ alerts = {}
  /\ mreq = [r \in MsgReq |-> NoRequest]
  /\ mpc = [r \in MsgReq |-> "new"]
  /\ chosen = [r \in MsgReq |-> {}]
  /\ earlier = [r \in MsgReq |-> {}]

Members(c) == {u \in User : u = c.pair[1] \/ u = c.pair[2]}

MAdmit(r, op, a) ==
  /\ mpc[r] = "new"
  /\ op \in MsgOps
  /\ Cardinality({q \in MsgReq : mpc[q] = "open"}) < MaxInFlight
  /\ CanCall(account[a])

MBegin(r, q, s) ==
  /\ mreq' = [mreq EXCEPT ![r] = q]
  /\ mpc' = [mpc EXCEPT ![r] = s]
  /\ earlier' = [earlier EXCEPT ![r] = {o \in MsgReq : mpc[o] = "committed"}]

MEnd(r) ==
  /\ mpc[r] = "open"
  /\ mpc' = [mpc EXCEPT ![r] = "committed"]
  /\ UNCHANGED earlier

-----------------------------------------------------------------------------
\* Fault: a match in any state opens a conversation.
FaultMayStart(a, b) == ~BlockedEitherWay(a, b)

\* start_conversation: an active match and no block either way.
MayStart(a, b) == match[Normalize(a, b)] = "ACTIVE" /\ ~BlockedEitherWay(a, b)

\* Fault: compares the pair in the order it was created in.
FaultDirect(a, b) == {c \in conversations : c.pair = <<a, b>>}

\* get_direct_conversation: some conversation has both as participants.
Direct(a, b) == {c \in conversations : Members(c) = {a, b}}

\* An existing conversation is returned; otherwise one is going to be made.
StartCheck(r, a, b) ==
  /\ MAdmit(r, "start", a)
  /\ MayStart(a, b)
  /\ MBegin(r, [op |-> "start", me |-> a, other |-> b],
            IF Direct(a, b) # {} THEN "committed" ELSE "open")
  /\ UNCHANGED <<chat, chosen>>

\* create_conversation: no constraint keeps a pair to one conversation.
StartCommit(r) ==
  /\ MEnd(r)
  /\ mreq[r].op = "start"
  /\ conversations' =
       conversations \cup {[id |-> r, pair |-> <<mreq[r].me, mreq[r].other>>]}
  /\ UNCHANGED <<messages, reads, alerts, mreq, chosen>>

\* send: only _assert_participant stands between the request and the row.
SendCheck(r, a, c) ==
  /\ MAdmit(r, "send", a)
  /\ a \in Members(c)
  /\ MBegin(r, [op |-> "send", me |-> a, conv |-> c], "open")
  /\ UNCHANGED <<chat, chosen>>

\* Fault: notifies the sender.
FaultOthers(c, a) == {a}

\* _other_participant
Others(c, a) == Members(c) \ {a}

SendCommit(r) ==
  LET c == mreq[r].conv IN
  /\ MEnd(r)
  /\ mreq[r].op = "send"
  /\ messages' = messages \cup {[id |-> r, conv |-> c, sender |-> mreq[r].me]}
  /\ alerts' = alerts \cup {<<r, u>> : u \in Others(c, mreq[r].me)}
  /\ UNCHANGED <<conversations, reads, mreq, chosen>>

\* Fault: marks what the reader sent himself.
FaultUnread(c, a) ==
  {m \in messages : m.conv = c /\ <<m.id, a>> \notin reads}

\* mark_conversation_read: what others sent and read_at does not say is read.
Unread(c, a) ==
  {m \in messages : m.conv = c /\ m.sender # a /\ <<m.id, a>> \notin reads}

Pages(S, n) ==
  {P \in SUBSET S : Cardinality(P) <= n /\ (Cardinality(P) = n \/ P = S)}

\* Fault: takes one message too few.
FaultLoads(c, a) == Pages(Unread(c, a), ReadLimit - 1)

\* LIMIT without ORDER BY: the database picks which messages are loaded.
Loads(c, a) == Pages(Unread(c, a), ReadLimit)

ReadCheck(r, a, c) ==
  /\ MAdmit(r, "mark_read", a)
  /\ a \in Members(c)
  /\ MBegin(r, [op |-> "mark_read", me |-> a, conv |-> c], "open")
  /\ \E S \in Loads(c, a) : chosen' = [chosen EXCEPT ![r] = S]
  /\ UNCHANGED chat

ReadCommit(r) ==
  /\ MEnd(r)
  /\ mreq[r].op = "mark_read"
  /\ reads' = reads \cup {<<m.id, mreq[r].me>> : m \in chosen[r]}
  /\ UNCHANGED <<conversations, messages, alerts, mreq, chosen>>

MFail(r) ==
  /\ mpc[r] = "open"
  /\ mpc' = [mpc EXCEPT ![r] = "failed"]
  /\ UNCHANGED <<chat, mreq, chosen, earlier>>

-----------------------------------------------------------------------------
MStep(r) ==
  \/ \E a, b \in User : StartCheck(r, a, b)
  \/ \E a \in User, c \in conversations : SendCheck(r, a, c) \/ ReadCheck(r, a, c)
  \/ StartCommit(r) \/ SendCommit(r) \/ ReadCommit(r)
  \/ MFail(r)

MNext ==
  \/ Next /\ UNCHANGED mvars
  \/ UNCHANGED vars /\ \E r \in MsgReq : MStep(r)

MSpec == Init /\ MInit /\ [][MNext]_<<vars, mvars>>

-----------------------------------------------------------------------------
\* Two users have a conversation only if they were matched once, hence (by
\* MatchNeedsMutualLikes) only if each has liked the other: the match that
\* start_conversation saw may end before it commits but its row stays.
ConversationNeedsMatch ==
  \A c \in conversations : match[Normalize(c.pair[1], c.pair[2])] # "NONE"

\* Every message was sent by a participant, alerts exactly the other one,
\* and only he ever marks it as read.
MessageStaysInside ==
  \A m \in messages :
    /\ m.sender \in Members(m.conv)
    /\ {u \in User : <<m.id, u>> \in alerts} = Members(m.conv) \ {m.sender}
    /\ {u \in User : <<m.id, u>> \in reads} \subseteq Members(m.conv) \ {m.sender}

\* A pair has one conversation, whoever starts it, unless two of its starts
\* overlapped; which of theirs later requests find is up to the database.
OneConversationPerPair ==
  \A c, d \in conversations :
    Members(c) = Members(d) => c.id \notin earlier[d.id] /\ d.id \notin earlier[c.id]

\* Mark a conversation as read: of the messages that were there when the
\* request arrived it leaves unread only those that ReadLimit is short of.
MarkReadTakesAll ==
  \A r \in MsgReq :
    LET old == {m \in messages : m.id \in earlier[r] /\ m.conv = mreq[r].conv
                                  /\ m.sender # mreq[r].me} IN
    mpc[r] = "committed" /\ mreq[r].op = "mark_read" =>
      \/ \A m \in old : <<m.id, mreq[r].me>> \in reads
      \/ Cardinality({m \in old : <<m.id, mreq[r].me>> \in reads}) >= ReadLimit

=============================================================================
