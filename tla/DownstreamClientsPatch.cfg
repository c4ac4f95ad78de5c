SPECIFICATION Spec
CONSTANTS
  c1 = c1
  c2 = c2
  r1 = r1
  r2 = r2
  r3 = r3
  a1 = a1
  a2 = a2
  read = read
  chat = chat
  p1 = p1
  p2 = p2
  Unlimited = Unlimited
  NoClient = NoClient
  NoRequest = NoRequest
  Client <- OneClient
  Label <- SameLabel
  Request <- NoRequests
  CatalogRequests <- NoCatalog
  NeededScope <- AllChat
  Profile <- Profiles
  AskedProfile <- AllP1
  ScopeSets <- WideAndNarrow
  NewPolicies <- OnlyLimited
  PolicyPatches <- Tightened
  Admin <- TwoAdmins
  MinutesPerDay = 3
  MaxGeneration = 2
  Horizon = 2
  KeysStored = TRUE
  Faults <- NoFaults
PROPERTIES
  OmittedScopesAreKept
CHECK_DEADLOCK FALSE
