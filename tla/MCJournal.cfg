SPECIFICATION Spec
CONSTANTS
  Bars <- AllBars
  Prices = {98, 100}
  Biases = {"LONG", "SHORT", "NEUTRAL"}
  Horizon = 3
  RRTarget = 2
  MaxBars = 6
INVARIANT JournalInv
PROPERTY YesWasNeverStopped
CHECK_DEADLOCK FALSE
