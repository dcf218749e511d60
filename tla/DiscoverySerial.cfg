CONSTANTS
  r1 = r1
  r2 = r2
  r3 = r3
  r4 = r4
  User <- MCTwo
  Req <- MCReq4
  Ops <- AllOps
  Actions <- SwipeAction
  MaxInFlight = 1
SPECIFICATION Spec
SYMMETRY Symmetry4
INVARIANTS
  MutualLikesMatch
  BlockEndsMatch
PROPERTIES
  NewMatchPartnersReachable
CHECK_DEADLOCK FALSE
