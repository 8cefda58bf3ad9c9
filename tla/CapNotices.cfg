SPECIFICATION FairSpec
CONSTANTS
  Jobs = {"orders", "training"}
  Config <- MCConfig
  MaxEvents = 2
  Weekly = {"training"}
  MissedDay = {"orders"}
  PastDay = {"orders"}
  Day = 2
  DayRange = 2
  Horizon = 4
  MaxBoots = 2
  MaxRuns = 1
  MaxOthers = 1
  Faults = TRUE
INVARIANTS ToldOnce ScanIsFinal
PROPERTIES NoFalseAlarm EveryMissTold
