CONSTANTS
  Sample = {0, 1}
  Silence = 0
  Capacity = 6
  Sustain = 2
  Drop = 2
  MaxBatch = 3
  Period = 2
  Low = 3
  Target = 5
  CoreRates <- MCCoreRates
  NativeRates <- MCNativeRates
  OutputRate = 32
  StepDivisor = 8
  Interval = 3
  DelayLow = 2
  DelayTarget = 3
  DelayHigh = 4
  Delays <- MCDelays
  Convert = 3
  ConvertCapacity = 5
  MaxRate = 110
SPECIFICATION AudioSpec
INVARIANTS TypeOK SeamsRamped OutputFits
PROPERTIES FifoSpec StarvedRecovers
