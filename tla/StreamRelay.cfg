SPECIFICATION Spec
CONSTANTS
  Frame <- MCFrame
  MaxFrames = 4
  Rest <- MCRest
INVARIANTS
  ClientSeesWhatWasSent
  StreamsFailForCause
  LedgerMatchesTheClient
CHECK_DEADLOCK FALSE
