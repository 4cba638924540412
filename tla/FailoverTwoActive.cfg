SPECIFICATION Spec
CONSTANTS
  a = a
  b = b
  Server <- Pair
  Mode <- Warm
  Junk = Junk
  GroupReady = TRUE
  RetvalGarbage = {"null", "nonnull"}
  MaxConnect = 2
  Budget <- Calm
INVARIANT AtMostOneActive
CHECK_DEADLOCK FALSE
