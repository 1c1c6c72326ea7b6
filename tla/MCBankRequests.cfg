CONSTANTS
  f1 = f1  f2 = f2  q1 = q1
  None = None
  Folders = {f1}
  Requests = {q1}
  Kinds = {"search", "rescan"}
  Actions = {"apply", "skip_new"}
  MaxVersion = 2
  MaxId = 1
  MaxStamp = 1
  Faults = FALSE
SPECIFICATION FairSpec
INVARIANTS RescanIsCurrent StaleMeansNotImported
PROPERTY QueuedIsSettled
