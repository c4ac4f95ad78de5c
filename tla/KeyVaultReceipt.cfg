SPECIFICATION Spec
CONSTANTS
  k1 = k1
  k2 = k2
  k3 = k3
  k4 = k4
  t1 = t1
  t2 = t2
  NoKey = NoKey
  NoTask = NoTask
  Key <- TwoKeys
  Task <- TwoTasks
  MaxUpstreamKeys = 2
  MaxDelay = 1
  Horizon = 1
  ClientsStored = FALSE
  Faults <- NoFaults
PROPERTIES
  InvalidReceiptsAwaitVerification
SYMMETRY Symmetry
CHECK_DEADLOCK FALSE
