CONSTANTS
  NBuf = 2
  MaxFrames = 1
SPECIFICATION Spec
INVARIANT StripIsBacked
CHECK_DEADLOCK FALSE
