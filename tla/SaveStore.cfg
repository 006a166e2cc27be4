CONSTANTS
  Value = {v0, v1}
  Blank = v0
  Game = {g1, g2}
  PollFrames = 2
  FlushTicks = 1
SYMMETRY Games
SPECIFICATION Spec
INVARIANTS FilesWhole ExitSaves
PROPERTIES LoadReturnsSaved
