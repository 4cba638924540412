SPECIFICATION Spec
CONSTANTS
  Key <- Paths
  Hash <- Distinct
  Primes <- Sizes
  MaxInserts = 7
INVARIANT TypeOK
INVARIANT WellPlaced
INVARIANT RecentIsLatest
CHECK_DEADLOCK FALSE
