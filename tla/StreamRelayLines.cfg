SPECIFICATION Spec
CONSTANTS
  Frame <- MCFrame
  MaxFrames = 4
  Rest <- MCRest
INVARIANTS
  FramesArriveWhole
CHECK_DEADLOCK FALSE
