SPECIFICATION FairSpec
CONSTANTS
  a = a
  b = b
  Server <- Pair
  Writer <- OnlyA
  Parent <- Nested
  Nodeset = {1}
  Opening <- StartCopy
  Kind = {"write", "update", "add"}
  AvailabilityPriority = TRUE
  MaxLosses = 0
  MaxZxid = 8
  Garbage = {}
INVARIANT StartupAgrees
INVARIANT NeverDeaf
INVARIANT PassiveConverges
INVARIANT CopyingNeverPushes
INVARIANT CopiesCurrent
PROPERTY PassiveCatchesUp
PROPERTY ImplementsReplica
CHECK_DEADLOCK FALSE
