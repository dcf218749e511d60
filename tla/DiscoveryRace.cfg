CONSTANTS
  r1 = r1
  r2 = r2
  r3 = r3
  r4 = r4
  User <- MCTwo
  Req <- MCReq4
  Ops <- PairOps
  Actions <- SwipeAction
  MaxInFlight = 3
SPECIFICATION Spec
SYMMETRY Symmetry4
INVARIANTS
  TypeOK
  MatchNeedsMutualLikes
  MatchAnnouncedOnce
PROPERTIES
  MatchNeverRevives
  ImplementsMatching
CHECK_DEADLOCK FALSE
