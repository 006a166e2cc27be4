CONSTANTS
  QueueMax = 1
SPECIFICATION FairSpec
INVARIANTS LatchExact KeysFollowDevice
PROPERTIES ResumeIsFresh MenuOpens
