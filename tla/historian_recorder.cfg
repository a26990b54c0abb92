SPECIFICATION Spec
CHECK_DEADLOCK FALSE
CONSTANTS
  MaxTick = 3
  MaxClock = 2
  MaxStepBack = 1
  MaxBoot = 2
  MaxSequence = 1
  MaxUnknown = 1
  MaxFault = 1
  MaxEnd = 1
  PlatformEvery = 2
  Minute = 2
INVARIANTS
  TypeOK
  SampleInItsBoot
  StreamGoesForward
  RollupsCount
  EventsConnect
PROPERTIES
  HistoryGrows
