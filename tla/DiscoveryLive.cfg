CONSTANTS
  r1 = r1
  r2 = r2
  r3 = r3
  r4 = r4
  User <- MCTwo
  Req <- MCReq3
  Ops <- PairOps
  Actions <- SwipeAction
  MaxInFlight = 3
SPECIFICATION FairSpec
PROPERTIES
  RequestsAnswered
CHECK_DEADLOCK FALSE
