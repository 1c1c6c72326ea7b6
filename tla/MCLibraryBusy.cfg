CONSTANTS
  r1 = r1  r2 = r2  r3 = r3  r4 = r4
  h1 = h1  h2 = h2  h3 = h3
  None = None
  Runs = {r1, r2, r3, r4}
  Holders = {h1, h2, h3}
  JobOf <- MCJobOf
  CaptureAt <- MCCaptureAt
  Kind <- MCKind
  MaxApplies = 2
  CloseCrash = TRUE
SPECIFICATION FairSpec
INVARIANTS Exclusion LateCaptureIsCurrent
PROPERTIES MutexSpec SlotIsFreed
