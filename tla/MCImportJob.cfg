SPECIFICATION FairSpec
CONSTANTS
  None = None
  Modes = {"attended", "unattended", "sweep", "pinned", "asis", "astracks", "skip_new", "keep_both", "replace", "merge"}
  Actions = {"apply", "asis", "astracks", "skip", "search", "rescan"}
  MaxAlbums = 2
  MaxRequests = 2
  Raises = TRUE
INVARIANTS AwaitingIsTrue StopReachesThePark ParkIsShown CountsAreTrue OutcomeIsTrue
PROPERTIES ApplyIsOfShownList KeepsRendezvous StopEndsJob
