SPECIFICATION Spec
CONSTANTS
  a = a
  b = b
  Server <- Pair
  Writer <- OnlyA
  Parent <- Single
  Nodeset = {}
  Opening <- RunOne
  Kind = {"write", "delete"}
  AvailabilityPriority = TRUE
  MaxLosses = 0
  MaxZxid = 8
  Garbage = {0, 50}
INVARIANT PassiveHasNoGhosts
CHECK_DEADLOCK FALSE
