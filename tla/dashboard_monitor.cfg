SPECIFICATION FairSpec
CONSTANTS
  Points = {"ohm", "alarm"}
  MaxWrite = 2
  MaxLoss = 2
  MaxSent = 2
INVARIANTS
  ShownIsOfSession
PROPERTIES
  CacheCatchesUp
