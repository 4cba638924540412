SPECIFICATION Spec
CONSTANTS
  a = a
  b = b
  Server <- Pair
  Mode <- Warm
  Junk = Junk
  GroupReady = TRUE
  RetvalGarbage = {"null"}
  MaxConnect = 1
  Budget <- Unanswering
SYMMETRY Symmetry
INVARIANT TypeOK
INVARIANT MonitorHoldsLock
INVARIANT QuiescentIsCovered
CHECK_DEADLOCK FALSE
