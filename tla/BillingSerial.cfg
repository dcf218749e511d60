CONSTANTS
  u1 = u1
  p1 = p1
  p2 = p2
  p3 = p3
  r1 = r1
  r2 = r2
  r3 = r3
  User <- MCUser
  Payment <- MCPayment
  Owner <- MCOwner
  Kind <- MCKind
  Days <- MCDays
  Req <- MCReq3
  Ops <- AllOps
  Validity = 1
  MaxTime = 3
  MaxInFlight = 1
SPECIFICATION Spec
SYMMETRY Symmetry3
INVARIANTS
  GrantedOnce
  OneActiveSubscription
  RefundedOnceUnlessFailed
PROPERTIES
  ImplementsLedger
  RenewalExtends
  DecisionStands
CHECK_DEADLOCK FALSE
