SPECIFICATION FairSpec
CONSTANTS
  t1 = t1
  p1 = p1
  h1 = h1
  c1 = c1
  c2 = c2
  o1 = o1
  o2 = o2
  NoOwner = NoOwner
  NoRun = NoRun
  NoCase = NoCase
  TrafficRuns <- MCTraffic
  PersistenceRuns <- MCPersistence
  HermesRuns = {}
  Case <- MCOneCase
  RestartCase = c1
  Owner = {o1, o2, o3}
  Faults <- MCLiveFaults
INVARIANTS
  ClosedRunsHaveNoOpenCase
PROPERTIES
  EveryRunEnds
CHECK_DEADLOCK FALSE
