SPECIFICATION FairSpec
CONSTANTS
  a = a
  b = b
  Server <- Pair
  Mode <- WarmAndHot
  Junk = Junk
  GroupReady = TRUE
  RetvalGarbage = {"null", "nonnull"}
  MaxConnect = 2
  Budget <- Calm
INVARIANT QuiescentIsCovered
PROPERTY Takeover
CHECK_DEADLOCK FALSE
