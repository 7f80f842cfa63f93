SPECIFICATION Spec
CONSTANTS
  Symbols <- OneSymbol
  Levels = {10}
  Readings <- Moving
  BucketLength = 2
  Heartbeat = 1
  Cooldown = 2
  MaxTime = 2
  MaxRestarts = 1
INVARIANTS
  RadarInv
  RowIsEarned
PROPERTIES
  HistoryExplainsState
  NoFlapping
