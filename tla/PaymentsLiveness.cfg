CONSTANTS
  alice = alice  key1 = key1  key2 = key2  phone1 = phone1  phone2 = phone2
  PaymentId = {p1, p2}
  Intent <- MCIntents
  Client = {c1}
  Notifier = {n1}
  Sweeper = {s1}
  RefusedPhone = {phone2}
  NoReference = NoReference
  MaxUserAttempts = 2
  MaxPhoneAttempts = 2
  InFlightWindow = 1
  UserWindow = 1
  PhoneWindow = 2
  SweepGrace = 0
  UnreferencedTtl = 1
  PendingTtl = 2
  BatchSize = 1
  LastRequest = 1
  MaxTime = 2
  MaxFaults = 1
SPECIFICATION FairSpec
CHECK_DEADLOCK FALSE
PROPERTIES
  PendingEnds
  ServedUnlessOvertaken
