CONSTANTS
  File <- MCFiles
  PageCount = 1
  BatchPages = 1
  Chars = {1}
  Confirmer = {c1}
  Editor = {}
  Extractor = {x1}
  Recognizer = {o1}
  Attempts <- MCAttempts
  SweepKey = {k1}
  MaxRevision = 1
  MaxFaults = 1
  HooksAreSafe = TRUE
SPECIFICATION FairSpec
CHECK_DEADLOCK FALSE
PROPERTIES
  ExtractionEnds
  SourceIsDeleted
