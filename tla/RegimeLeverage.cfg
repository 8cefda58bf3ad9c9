SPECIFICATION FairSpec
CONSTANTS
  Dailies = {"daily"}
  Weeklies = {"weekly"}
  Serial = TRUE
  Prompt = TRUE
  MaxBars = 3
  MaxOpened = 2
INVARIANTS NoBarPassedOver
PROPERTIES PositionsFollow StopHonoured
