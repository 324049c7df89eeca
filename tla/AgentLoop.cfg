\* Two runs, one after the other, on one session; an abort at any point.
SPECIFICATION FairSpec
CONSTANTS
  Run = {1, 2}
  MaxIter = 2
  Recent = 1
  Inherited = 4
  MaxRecovery = 1
  Doom = 2
  Repeat = 2
  MaxCalls = 1
INVARIANTS
  PromptsWellFormed
  OneResult
  CallsAnswered
  Recorded
PROPERTY RunEnds
CHECK_DEADLOCK FALSE
