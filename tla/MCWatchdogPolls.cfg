SPECIFICATION FairSpec
CONSTANTS
  Providers = {"aws", "gcp", "runpod"}
  Reachable = {"token", "action", "retoken", "preempted2", "maintenance", "status"}
  MaxLoops = 2
  MaxExpiries = 2
  MaxWebhooks = 1
INVARIANTS
  PolledOnce
PROPERTIES
  SilentWhenStopped
  NoticeReachesDaemon
