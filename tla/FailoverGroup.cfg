SPECIFICATION Spec
CONSTANTS
  a = a
  b = b
  Server <- Pair
  Mode <- AloneAndCold
  Junk = Junk
  GroupReady = FALSE
  RetvalGarbage = {"null", "nonnull"}
  MaxConnect = 1
  Budget <- Expiring
PROPERTY ImplementsGroup
CHECK_DEADLOCK FALSE
