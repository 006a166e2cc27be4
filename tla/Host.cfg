CONSTANTS
  CORE_INIT_TIMEOUT_SECONDS = 15
  CORE_LOAD_TIMEOUT_SECONDS = 30
  CORE_RUN_TIMEOUT_SECONDS = 10
  BenchmarkLimits = {0, 1, 2}
  MaxElapsed = 30
  CORE_OPTIONS_MAX = 2
  CORE_OPTION_VALUES_MAX = 2
  SAVE_STATE_SLOTS = 2
  FRAMESKIPS = 3
  CoreFrame = 12
  Declarations <- MCDeclarations
  NsPerSec = 4
  DefaultFrame = 1
  FrameNs <- MCFrameNs
  Seconds <- MCSeconds
  Attempts = 3
  MaxJournal = 3
  Word = 32
  Page = 8
  Header = 2
  Sizes <- MCSizes
  Pointers = {1, 2}
  GLYPH_CACHE = 2
  Codepoints = {"a", "b", "c", "blank"}
  Shape <- MCShape
  AgeSpan = 7
  JS2300_CORE_WIDTH = 3
  JS2300_CORE_HEIGHT = 2
  Coordinates <- MCCoordinates
  Colors = {0, 1}
SPECIFICATION HostsSpec
INVARIANTS WatchdogFair CleanExit MenuSound OptionsReachCore PaceAsShown
  NeverOutruns LateAcksOnly BlocksFit GlyphsSound ScreenAsDrawn
PROPERTIES StopEnds TimelineSpec
CHECK_DEADLOCK FALSE
