CONSTANTS
  File <- MCText
  PageCount = 2
  BatchPages = 1
  Chars = {1, 2}
  Confirmer = {c1}
  Editor = {e1, e2}
  Extractor = {x1}
  Recognizer = {}
  Attempts <- MCAttempts
  SweepKey = {}
  MaxRevision = 3
  MaxFaults = 0
  HooksAreSafe = TRUE
SPECIFICATION Spec
CHECK_DEADLOCK FALSE
INVARIANTS
  CharCountIsSum
