SPECIFICATION FairSpec
CONSTANTS
  Category <- Categories
  Essential <- EssentialOnes
  Collective <- Collectives
  Parts <- SomeParts
  Expected <- SomeExpected
  Found <- SomeFound
  Failing <- Fails
  Hanging <- Hangs
  Workers = 2
  MaxBreak = 1
INVARIANTS
  StaleIsMarked
  HealthIsTrue
  ReadyIsComplete
PROPERTIES
  OthersGoOn
