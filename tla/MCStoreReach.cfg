SPECIFICATION Spec
CONSTANTS
  None = None
  Places <- MCPlaces
  BeetsDir <- B
  MaxHops = 2
  Texts <- MCTexts
  Envs <- MCEnvs
  LinkAt <- X
  Targets <- MCTargets
  Sources <- MCSources
  MaxOutside = 1
  MaxOps = 1
INVARIANTS ReachIsTheirs NoTrashOnBareMount
CHECK_DEADLOCK FALSE
