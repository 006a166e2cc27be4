CONSTANTS
  CoreRates <- MCCoreRates
  NativeRates <- MCNativeRates
  OutputRate = 32
  StepDivisor = 8
  Interval = 3
  DelayLow = 2
  DelayTarget = 3
  DelayHigh = 4
  Delays <- MCDelays
  Convert = 3
  ConvertCapacity = 5
  MaxRate = 110
SPECIFICATION RateFairSpec
PROPERTIES LeadRebuilt
