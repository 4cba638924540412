SPECIFICATION Spec
CONSTANTS
  a = a
  b = b
  Server <- Pair
  Writer <- Pair
  Parent <- Flat
  Nodeset = {}
  Opening <- RunTwo
  Kind = {"delete"}
  AvailabilityPriority = TRUE
  MaxLosses = 0
  MaxZxid = 8
  Garbage = {}
PROPERTY DeletesAreReplicated
CHECK_DEADLOCK FALSE
