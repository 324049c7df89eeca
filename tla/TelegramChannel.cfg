\* Four updates, the second of them ignored, and three processes.
SPECIFICATION FairSpec
CONSTANTS
  LastUpdate = 4
  Ignored = {2}
  MaxLife = 3
INVARIANTS
  ConfirmedIsDone
  OncePerLife
PROPERTIES
  HandledAtLast
CHECK_DEADLOCK FALSE
