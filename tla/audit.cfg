SPECIFICATION Spec
CONSTANTS
  MaxCommand = 4
PROPERTIES
  OnlyRecoveryUnlocks
