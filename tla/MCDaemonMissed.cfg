SPECIFICATION Spec
CONSTANTS
  n1 = n1
  n2 = n2
  r1 = r1
  r2 = r2
  Notices = {n1, n2}
  Requests = {r1, r2}
  Registered = {}
  Faults = {}
INVARIANTS
  TerminatedMeansMigrated
CHECK_DEADLOCK FALSE
