CONSTANTS
  u1 = u1  u2 = u2  r1 = r1  r2 = r2  p1 = p1  p2 = p2  none = none  gone = gone
  User = {u1, u2}
  ReservationId = {r1, r2}
  PaymentRef = {p1, p2}
  Offers <- MCOffers
  FreeLimit = 1
  MaxChars = 4
  MaxTime = 3
  PeriodOf <- MCPeriodOf
  NoPass = none
  Detached = gone
SPECIFICATION Spec
CHECK_DEADLOCK FALSE
INVARIANTS
  TypeOK
  BalancesMatchHistory
  JournalExplainsBalance
  NeverOverdrawn
  PassesNeverOverlap
  AllOrNothing
  RefundKeepsEarliestSources
PROPERTIES
  GrantedForever
  RefundedOnce
SYMMETRY MCSymmetry
