SPECIFICATION FairSpec
CHECK_DEADLOCK FALSE
CONSTANTS
  MaxWrite = 2
  MaxClock = 4
  MaxStepBack = 1
  MaxStream = 2
  MaxFault = 2
  MaxReplay = 1
  BatchSize = 1
  Minute = 2
  Retain <- ShortRaw
  RetentionEnabled = FALSE
  ExpectedSource = "none"
  Poison = {2}
INVARIANTS
  NothingSkipped
  StreamsAreKept
  OneSource
PROPERTIES
  MirrorSpec
  KeepsWhatItTook
  RowsArrive
