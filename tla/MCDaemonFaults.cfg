SPECIFICATION FairSpec
CONSTANTS
  n1 = n1
  n2 = n2
  r1 = r1
  r2 = r2
  Notices = {n1, n2}
  Requests = {r1, r2}
  Registered = {r1}
  Faults = {"sync_lost", "alert_lost", "alert_late", "engine_deaf", "transfer_fails",
            "frame_mistaken", "sigterm"}
INVARIANTS
  OneHandover
  
  HaltedWasSignaled
PROPERTIES
  LifecycleForward
  EveryNoticeResolves
CHECK_DEADLOCK FALSE
