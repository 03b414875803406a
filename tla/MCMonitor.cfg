SPECIFICATION MonitorFairSpec
CONSTANTS
  NodeIds <- Ids
  StandIn <- StandIns
  DemoNode <- DemoNodes
  MaxEvents = 3
  MaxMisses = 2
INVARIANTS
  OneNodePerRole
PROPERTIES
  MonitorSettles
