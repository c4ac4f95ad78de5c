SPECIFICATION FairSpec
CONSTANTS
  g1 = g1
  g2 = g2
  r1 = r1
  r2 = r2
  r3 = r3
  NoProcess = NoProcess
  Unknown = Unknown
  Process <- Processes
  Request <- TwoRequests
  Boundary <- OneBoundary
  Latency <- FastAndSlow
  BatchSize = 1
  RequestDays <- OneDay
  MetricDays <- OneOrTwo
  Settings0 <- Usual
  MinSamples = 2
  Percentile = 50
  Window = 1
  Horizon = 2
INVARIANTS
  BucketsCountEachRequestOnce
  PublicMetricIsHonest
PROPERTIES
  EveryClosedRequestIsCounted
CHECK_DEADLOCK FALSE
