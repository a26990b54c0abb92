SPECIFICATION Spec
CHECK_DEADLOCK FALSE
CONSTANTS
  Kinds <- ThreeKinds
  MaxSample = 3
  MaxClock = 4
  MaxFault = 1
  Minute = 2
  Age <- Ages
  Asked <- AllOfIt
INVARIANTS
  TypeOK
  RollupsAreExact
  PointsAreExact
  AnswerFits
  NothingHidden
