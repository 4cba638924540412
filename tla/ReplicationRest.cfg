SPECIFICATION FairSpec
CONSTANTS
  a = a
  b = b
  Server <- Pair
  Writer <- OnlyA
  Parent <- Single
  Nodeset = {1}
  Opening <- StartRest
  Kind = {"write", "add", "delete"}
  AvailabilityPriority = FALSE
  MaxLosses = 1
  MaxZxid = 8
  Garbage = {50}
INVARIANT TypeOK
INVARIANT NeverDeaf
PROPERTY ComesToRest
CHECK_DEADLOCK FALSE
