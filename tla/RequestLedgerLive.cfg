SPECIFICATION FairSpec
CONSTANTS
  o1 = o1
  o2 = o2
  r1 = r1
  r2 = r2
  k1 = k1
  k2 = k2
  k3 = k3
  NoOwner = NoOwner
  NoKey = NoKey
  Owner <- MCOwner
  Request <- MCOne
  Key <- MCKey
  ClientRequests <- MCOne
  AnonymousRequests <- MCNone
  StreamRequests <- MCOne
  FixturedRequests <- MCOne
  MaxConcurrency = 1
  MaxUpstreamKeys = 2
  Faults <- Lapses
PROPERTIES
  PermitsAreReleased
  StartedRequestsClose
  OpenAttemptsClose
CHECK_DEADLOCK FALSE
