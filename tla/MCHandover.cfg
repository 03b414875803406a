SPECIFICATION FairSpec
CONSTANTS
  N = 3
  Oversized = {}
  Damage = {"payload", "header", "type"}
  MaxDamage = 2
  Faults = {"disconnect", "vanish", "standby_dies", "stall"}
INVARIANTS
  AckMeansResumed
  NoEarlyTakeover
  AckMeansUndamaged
PROPERTIES
  SenderEnds
  ReceiverEnds
  ImplementsTransfer
CHECK_DEADLOCK FALSE
