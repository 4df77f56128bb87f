CONSTANTS
  u1 = u1  r1 = r1  r2 = r2  p1 = p1  p2 = p2  t1 = t1  t2 = t2  none = none  gone = gone
  User = {u1}
  ReservationId = {r1, r2}
  PaymentRef = {p1, p2}
  Offers <- MCOffers
  FreeLimit = 1
  MaxChars = 3
  MaxTime = 1
  PeriodOf <- MCPeriodOf
  NoPass = none
  Detached = gone
  Tx = {t1, t2}
  Demands <- MCDemands
SPECIFICATION LocksSpec
INVARIANTS
  ReadsStayCurrent
  NeverAllWaiting
PROPERTIES
  ImplementsLedger
SYMMETRY MCSymmetry
