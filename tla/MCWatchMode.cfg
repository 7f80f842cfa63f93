SPECIFICATION Spec
CONSTANTS
  e1 = e1
  e2 = e2
  NoZone = NoZone
  Watches = 3
  Symbol = {"XAU"}
  Prices = {1000, 1100}
  Zones <- SuppliedOrNot
  FallbackMille = 4
  Evaluator = {e1, e2}
  PageSize = 2
  Cancels = {2}
SYMMETRY Symmetry
INVARIANTS
  WatchInv
  ReactionEvidence
PROPERTIES
  ZoneKept
  ForwardAlone
