SPECIFICATION FairSpec
CONSTANTS
  Retries = 2
  Faults = {"late", "garbled", "restart"}
INVARIANTS
  DetectionIsRight
  SessionIsReleased
PROPERTIES
  DaemonServes
CHECK_DEADLOCK FALSE
