CONSTANTS
  File <- MCFiles
  PageCount = 2
  BatchPages = 1
  Chars = {2}
  Confirmer = {c1}
  Editor = {e1}
  Extractor = {x1}
  Recognizer = {o1}
  Attempts <- MCAttempts
  SweepKey = {k1}
  MaxRevision = 2
  MaxFaults = 1
  HooksAreSafe = FALSE
SPECIFICATION Spec
CHECK_DEADLOCK FALSE
INVARIANTS
  TypeOK
  SourceIsKept
  TextIsWhole
PROPERTIES
  ExtractedOnce
  ConfirmedIsNotPurged
