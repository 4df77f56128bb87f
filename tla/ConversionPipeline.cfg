CONSTANTS
  ConversionId = {c1, c2}
  Client = {a1, a2}
  Revision <- MCRevisions
  Chars <- MCChars
  SegmentPlan <- MCSegments
  PartOf <- MCTwoParts
  PrepareWorker = {w1}
  SynthesisWorker = {w2, w3}
  AssemblyWorker = {w4}
  Attempts <- MCAttempts
  SweepKey = {k1}
  MaxFaults = 1
  HooksAreSafe = FALSE
SPECIFICATION Spec
CHECK_DEADLOCK FALSE
INVARIANTS
  TypeOK
  FailedIsRefunded
  DeliveredIsComplete
  OneChargePerTarget
  OneRevisionRead
PROPERTIES
  OnlyForward
SYMMETRY MCSymmetry
CONSTRAINT MCBounds
