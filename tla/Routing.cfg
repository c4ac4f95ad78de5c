SPECIFICATION Spec
CONSTANTS
  r1 = r1
  r2 = r2
  q1 = q1
  q2 = q2
  quota = quota
  denied = denied
  odd = odd
  NoOne = NoOne
  Request <- MCRequest
  QaRequest <- MCQaRequest
  Generation <- MCGeneration
  Status <- MCStatus
  AuthStatus <- MCAuthStatus
  Document <- MCDocument
  Default <- MCDefault
  Stores <- MCStores
SYMMETRY Alike
INVARIANTS
  GenerationCountsFirstAttempts
  QaPassMeansExclusive
PROPERTIES
  PicksAlternate
CHECK_DEADLOCK FALSE
