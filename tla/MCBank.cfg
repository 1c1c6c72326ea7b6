CONSTANTS
  f1 = f1  f2 = f2  q1 = q1
  None = None
  Folders = {f1}
  Requests = {}
  Kinds = {}
  Actions = {"apply", "asis", "astracks", "replace", "keep_both", "skip_new",
             "merge", "ignore"}
  MaxVersion = 2
  MaxId = 2
  MaxStamp = 2
  Faults = TRUE
SPECIFICATION Spec
INVARIANTS RowsAreReadable DecisionLandsOnce 
