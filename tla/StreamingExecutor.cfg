\* Up to five calls of any safety; a tool may reject.
SPECIFICATION FairSpec
CONSTANTS
  N = 5
  Rejects = TRUE
INVARIANTS
  Barrier
  NeverIdle
  AllDelivered
  LoopAgrees
PROPERTIES
  DeliverySpec
  DrainEnds
CHECK_DEADLOCK FALSE
