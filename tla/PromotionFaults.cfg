SPECIFICATION Spec
CONSTANTS
  Kinds = {xgb, lgbm}
  Nights = {"night"}
  Weeks = {"week"}
  Modes <- MCByHand
  Versions = {"v1", "v2"}
  WatchDays = 1
  Faults = {"load", "watchlist", "backup", "replace", "restore", "train", "save"}
  Fragile = FALSE
  MaxMade = 3
  MaxWeeks = 1
  MaxRows = 1
SYMMETRY MCSymmetry
INVARIANTS TypeOK ProductionAccounted RolledBackStaysOut ShadowedBeforePromoted
PROPERTIES RollbackReturns
