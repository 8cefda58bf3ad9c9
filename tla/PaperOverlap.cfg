SPECIFICATION Spec
CONSTANTS
  Symbols = {"x"}
  Settlers = {c1, c2}
  Desks = {"d1"}
  Bars <- MCRisingBars
  Lots = {1}
  Limits = {48}
  Opening = 48
  Stacks = FALSE
  Quiet = FALSE
  Faults = TRUE
  MaxOrders = 3
SYMMETRY MCSymmetry
INVARIANTS CashMatchesFills LongMatchesFills
PROPERTIES SettledOnce AccountSpec
