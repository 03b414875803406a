SPECIFICATION FairSpec
CONSTANTS
  Calls = {c1, c2}
  N = 1
  Damage = {"payload", "header", "type"}
  MaxDamage = 1
  Faults = {"disconnect", "vanish", "oversized", "stall"}
INVARIANTS
  AckIsComplete
  ReturnIsAnswered
PROPERTIES
  ReceiverEnds
CHECK_DEADLOCK FALSE
