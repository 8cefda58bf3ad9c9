SPECIFICATION Spec
CONSTANTS
  Symbols = {"x", "y"}
  Settlers = {c1, c2}
  Desks = {"d1"}
  Bars <- MCBars
  Lots = {1}
  Limits = {}
  Opening = 48
  Stacks = FALSE
  Quiet = TRUE
  Faults = FALSE
  MaxOrders = 2
SYMMETRY MCSymmetry
PROPERTIES BuysStaySolvent
