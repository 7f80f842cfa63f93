SPECIFICATION Spec
CONSTANTS
  Tokens <- OneToken
  Prices = {0, 1, 2, 3}
  Sizes = {0, 2}
  Messages <- UpToTwoLevels
  Quantities = {0, 1, 2, 3, 5}
  MaxDepth = 2
  StaleAfter = 0
  MinPct = 50
  MaxPct = 100
  MaxTime = 1
INVARIANTS
  BookInv
  WalkFillsTheDepth
