CONSTANTS
  NBuf = 3
  MaxFrames = 1
SPECIFICATION FairSpec
INVARIANTS NoOverwrite CoreReleased NoFrameLost
PROPERTIES ReadyIsVisible CallbackReturns MenuIsDrawn
CHECK_DEADLOCK FALSE
