SPECIFICATION Spec
CONSTANTS
  Frame <- MCFrame
  MaxFrames = 4
  Rest <- MCRest
INVARIANTS
  ErrorsAreNoSuccess
CHECK_DEADLOCK FALSE
