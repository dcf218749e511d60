CONSTANTS
  u1 = u1
  p1 = p1
  p2 = p2
  p3 = p3
  r1 = r1
  r2 = r2
  r3 = r3
  User <- MCUser
  Payment <- MCMixed
  Owner <- MCOwner
  Kind <- MCKind
  Days <- MCDays
  Req <- MCReq3
  Ops <- LiveOps
  Validity = 1
  MaxTime = 2
  MaxInFlight = 3
SPECIFICATION FairSpec
PROPERTIES
  RequestsAnswered
CHECK_DEADLOCK FALSE
