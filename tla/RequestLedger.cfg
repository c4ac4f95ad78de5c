SPECIFICATION Spec
CONSTANTS
  o1 = o1
  o2 = o2
  r1 = r1
  r2 = r2
  k1 = k1
  k2 = k2
  k3 = k3
  NoOwner = NoOwner
  NoKey = NoKey
  Owner <- MCOwner
  Request <- MCRequest
  Key <- MCRotatedKeys
  ClientRequests <- MCRequest
  AnonymousRequests <- MCOne
  StreamRequests <- MCStreamed
  FixturedRequests <- MCRequest
  MaxConcurrency = 1
  MaxUpstreamKeys = 2
  Faults <- AllFaults
INVARIANTS
  ClosedRowHasNoOpenAttempt
  FailoverCountExact
  RowSucceedsWithItsAttempt
  CancelledIffHandedOff
  LiveOwnerIsNeverAbandoned
  InFlightHoldsPermit
PROPERTIES
  VerdictsAreFinal
  ImplementsContract
VIEW UsedState
CONSTRAINT OneIsSent
SYMMETRY KeySymmetry
CHECK_DEADLOCK FALSE
