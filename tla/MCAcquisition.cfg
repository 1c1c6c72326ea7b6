SPECIFICATION Spec
CONSTANTS
  f1 = f1
  w1 = w1  w2 = w2
  None = None
  Folders = {f1}
  Hooks = {w1, w2}
  MaxClock = 2
  Faults = TRUE
INVARIANTS WorkIsTrue QuietHiddenIsImported
