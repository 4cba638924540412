SPECIFICATION Spec
CONSTANTS
  a = a
  b = b
  Server <- OnlyA
  Mode <- OneCold
  Junk = Junk
  GroupReady = FALSE
  RetvalGarbage = {"null", "nonnull"}
  MaxConnect = 2
  Budget <- Everything
INVARIANT NoDoubleMonitor
INVARIANT NeverThreeStrikes
CHECK_DEADLOCK FALSE
