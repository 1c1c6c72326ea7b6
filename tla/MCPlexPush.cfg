SPECIFICATION Spec
CONSTANTS
    Inputs <- MCInputs
    Strangers <- MCStrangers
    MaxEntries = 3
    MaxRows = 3
INVARIANTS PushLands OneTrackOneItem
PROPERTIES NothingIsLost
CHECK_DEADLOCK FALSE
