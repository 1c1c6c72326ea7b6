SPECIFICATION Spec
CONSTANTS
  r1 = r1  r2 = r2
  None = None
  Tabs = {r1, r2}
  Places <- MCPlaces
  BeetsDir <- B
  MaxHops = 2
  Texts <- MCTexts
  Envs <- MCEnvs
  LinkAt <- X
  Targets <- MCTargets
  MaxWrites = 2
  MaxOutside = 1
  MaxApplies = 1
SYMMETRY Alike
INVARIANTS NotPendingIsServed
PROPERTIES NoSaveIsLost
CHECK_DEADLOCK FALSE
