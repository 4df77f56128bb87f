CONSTANTS
  alice = alice  key1 = key1  key2 = key2  phone1 = phone1  phone2 = phone2
  PaymentId = {p1, p2}
  Intent <- MCIntents
  Client = {c1, c2}
  Notifier = {n1}
  Sweeper = {s1}
  RefusedPhone = {phone2}
  NoReference = NoReference
  MaxUserAttempts = 2
  MaxPhoneAttempts = 2
  InFlightWindow = 1
  UserWindow = 1
  PhoneWindow = 2
  SweepGrace = 0
  UnreferencedTtl = 2
  PendingTtl = 3
  BatchSize = 1
  LastRequest = 2
  MaxTime = 3
  MaxFaults = 1
SPECIFICATION Spec
CHECK_DEADLOCK FALSE
INVARIANTS
  TypeOK
  OfferGrantedOnce
  VerdictIsProviders
  OneDemandPerKey
PROPERTIES
  Lifecycle
  ExpiryIsPatient
SYMMETRY MCSymmetry
