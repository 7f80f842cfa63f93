SPECIFICATION Spec
CONSTANTS
  Bars <- AllBars
  Prices = {100}
  Biases = {"SHORT"}
  Horizon = 3
  RRTarget = 2
  MaxBars = 3
PROPERTY
  FallingMarketProvesShort
CHECK_DEADLOCK FALSE
