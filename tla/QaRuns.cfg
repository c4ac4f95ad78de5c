SPECIFICATION Spec
CONSTANTS
  t1 = t1
  p1 = p1
  h1 = h1
  c1 = c1
  c2 = c2
  o1 = o1
  o2 = o2
  NoOwner = NoOwner
  NoRun = NoRun
  NoCase = NoCase
  TrafficRuns <- MCTraffic
  PersistenceRuns <- MCPersistence
  HermesRuns <- MCHermes
  Case <- MCCase
  RestartCase = c1
  Owner <- MCOwner
  Faults <- MCFaults
INVARIANTS
  PassedRunsPassedEveryCase
PROPERTIES
  PersistencePassesOnRestart
  ImplementsContract
CHECK_DEADLOCK FALSE
SYMMETRY Owners
VIEW Unnamed
