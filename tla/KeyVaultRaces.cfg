SPECIFICATION Spec
CONSTANTS
  k1 = k1
  k2 = k2
  k3 = k3
  k4 = k4
  t1 = t1
  t2 = t2
  NoKey = NoKey
  NoTask = NoTask
  Key <- TwoKeys
  Task <- TwoTasks
  MaxUpstreamKeys = 1
  MaxDelay = 2
  Horizon = 2
  ClientsStored = FALSE
  Faults <- Recovered
INVARIANTS
  MemoryMatchesDatabase
  EnabledKeysAreVerified
  OffStaysOff
PROPERTIES
  AddKeepsEnabledKeys
  FailuresNeverShortenCooldowns
SYMMETRY Symmetry
CHECK_DEADLOCK FALSE
