SPECIFICATION FairSpec
CONSTANTS
  Symbols = {"BTC", "ETH"}
  Prices = {1, 2}
  Route <- TwoPairs
  Routed <- OnePair
  Deployments <- TwoAtATime
  RollEvery = 2
  NewsEvery = 2
  Supplies <- QuotesOrNews
  Titles = {"cut", "war"}
  Ingesters = {"monitor", "embedded"}
  Seconds <- Scaled
  Dedupe = 1
  EnoughBars = 1
  ReconnectMin = 2
  ReconnectMax = 3
  HealthyAge = 0
  MaxTime = 1
  MaxFaults = 1
  MaxRestarts = 1
INVARIANTS
  TablesInv
  AlertSpacing
  OutageShows
PROPERTIES
  BarsNest
  ConnectedHasStored
  QuotesReachTheBars
CHECK_DEADLOCK FALSE
