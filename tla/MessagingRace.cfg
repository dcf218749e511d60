CONSTANTS
  r1 = r1
  r2 = r2
  r3 = r3
  m1 = m1
  m2 = m2
  m3 = m3
  m4 = m4
  User <- MCTwo
  Req <- MCReq3
  Ops <- MCOps
  Actions <- LikeOnly
  MsgReq <- MCMsg4
  MsgOps <- AllMsg
  MaxInFlight = 2
  ReadLimit = 1
SPECIFICATION MSpec
SYMMETRY Symmetry34
INVARIANTS
  ConversationNeedsMatch
  MessageStaysInside
  OneConversationPerPair
  MarkReadTakesAll
CHECK_DEADLOCK FALSE
