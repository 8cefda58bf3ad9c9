SPECIFICATION Spec
CONSTANTS
  MaxDay = 3
  MaxOrders = 3
  Factor <- MCFactor
  Settings <- MCSettings
  Flaky = FALSE
VIEW Waiting
INVARIANTS SplitsOnce
PROPERTIES ExitsCloseWhatWasHeld
CHECK_DEADLOCK FALSE
