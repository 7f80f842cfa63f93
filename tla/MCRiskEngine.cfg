\* One evaluation per behaviour: a behaviour ends after it.
SPECIFICATION ReviewSpec
CONSTANTS
  Limits <- DefaultLimits
  LotScale = 10
  Proposals <- Around100
  Portfolios <- RoundBooks
  HeldByGroup <- TwiceTheEquity
INVARIANTS
  VerdictInv
  WorseBookNeverHelps
  LightAgrees
CHECK_DEADLOCK FALSE
