CONSTANTS
  Value = {v0, v1}
  Blank = v0
  Game = {g1}
  PollFrames = 2
  FlushTicks = 1
SPECIFICATION FairSpec
PROPERTIES SavedAtLast
