SPECIFICATION FairSpec
CONSTANTS
  Symbols = {"x"}
  Settlers = {"c1"}
  Desks = {"d1"}
  Bars <- MCBars
  Lots = {1}
  Limits = {48}
  Opening = 24
  Stacks = TRUE
  Quiet = TRUE
  Faults = FALSE
  MaxOrders = 3
INVARIANTS ShortMatchesOrders ShortAmountMatchesOrders CoverOnlyFilled BooksBalance
PROPERTIES BuysStaySolvent EveryOrderDecided
