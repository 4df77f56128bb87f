CONSTANTS
  ConversionId = {c1}
  Client = {a1}
  Revision <- MCOneRevision
  Chars <- MCChars
  SegmentPlan <- MCTwoSegments
  PartOf <- MCOnePart
  PrepareWorker = {w1}
  SynthesisWorker = {w2}
  AssemblyWorker = {w4}
  Attempts <- MCAttempts
  SweepKey = {k1}
  MaxFaults = 2
  HooksAreSafe = TRUE
SPECIFICATION FairSpec
CHECK_DEADLOCK FALSE
PROPERTIES
  StartedEnds
