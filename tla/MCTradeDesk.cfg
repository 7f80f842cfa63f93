SPECIFICATION Spec
CONSTANTS
  i1 = i1
  i2 = i2
  o1 = o1
  w1 = w1
  w2 = w2
  NoIdea = NoIdea
  Limits <- DefaultLimits
  LotScale = 1
  StartingEquity = 100
  Idea = {i1, i2}
  Terms <- AllTerms
  Order = {o1}
  Worker = {w1, w2}
  Prices = {99, 102}
  QuoteStatus = {"LIVE", "STALE"}
  OrderTypes = {"LIMIT"}
  TypedQty = {0, 3}
  Slip = 1
  FillShare = {50, 100}
  FaroOutcome = {"OFF", "FAILED", "SENT"}
  MaxReviews = 2
SYMMETRY Symmetry
INVARIANTS
  TypeOK
  RiskGate
  FilledOnceByHuman
  FaroOnlyApproved
  StateIsCurrentVerdict
PROPERTIES
  ConfirmedOnce
  ImplementsGate
