CONSTANTS
  Programs <- SoundPrograms
  RdyDelay = 4
  SampleLengths = {1, 2}
  DmcPeriods = {4}
  Bits = 2
  FramePeriod = 4
  Lengths = {2}
  Speeds = {0, 1}
  ByteWidth = 4
  VolumeMax = 1
  Divisors = {1, 2}
  Timers = {0, 9, 15}
  TimerWidth = 16
  LinearLengths = {0, 2}
  LfsrTop = 4
  ShortTap = 4
  NoisePeriods = {1, 2}
SPECIFICATION FairSpec
INVARIANTS SoundTypeOK SampleIsFetched FetchIsNeeded InterruptLine DisabledIsSilent
PROPERTIES EveryReadEnds
