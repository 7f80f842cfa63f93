SPECIFICATION Spec
CONSTANTS
  a1 = a1
  a2 = a2
  Askers = {a1, a2}
  Worlds <- MCWorlds
INVARIANTS
  PlanIsWarranted
  WorseInputNeverMakesAPlan
  JournalTellsTheReply
  AnswersInv
  TwoAuditsAgree
  ConsensusFair
  PoolsApart
PROPERTIES
  EveryQuestionAnswered
CHECK_DEADLOCK FALSE
