SPECIFICATION Spec
CONSTANTS
  Symbols = {s1, s2, s3}
  MaxPositions = 2
  MaxOrders = 1
  ShortSide = TRUE
  Faults = {"gate", "predict", "buys", "shorts", "positions", "send", "link"}
  Late = FALSE
  Fragile = FALSE
SYMMETRY MCSymmetry
INVARIANTS CapKept SidesApart OneExitWaits RuleDayLimit EntriesDated
PROPERTIES SuccessMeansExits
