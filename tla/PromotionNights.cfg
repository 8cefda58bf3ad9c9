SPECIFICATION FairSpec
CONSTANTS
  Kinds = {xgb, lgbm}
  Nights = {"night"}
  Weeks = {"week"}
  Modes <- MCScheduled
  Versions = {"v1"}
  WatchDays = 1
  Faults = {"load", "watchlist", "backup", "replace", "restore", "train", "save", "clear"}
  Fragile = TRUE
  MaxMade = 2
  MaxWeeks = 1
  MaxRows = 1
PROPERTIES WatchEnds
