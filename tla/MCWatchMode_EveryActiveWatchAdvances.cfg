SPECIFICATION FairSpec
CONSTANTS
  e1 = e1
  e2 = e2
  NoZone = NoZone
  Watches = 2
  Symbol = {"XAU"}
  Prices = {1000, 1100}
  Zones <- SuppliedOrNot
  FallbackMille = 4
  Evaluator = {e1}
  PageSize = 1
  Cancels = {}
PROPERTY
  EveryActiveWatchAdvances
