SPECIFICATION Spec
CONSTANTS
  s1 = s1
  s2 = s2
  s3 = s3
  Server <- Servers
  Home = s1
  Requests <- AllRequests
  Half = 4
  One = 4
  Floats <- SmallFloats
  Doubles <- SmallDoubles
  Garbage = {0, 3}
  MaxVersion = 2
SYMMETRY Symmetry
INVARIANT TypeOK
INVARIANT AttributesSurvive
INVARIANT ValuesSurvive
INVARIANT CopiesAgree
INVARIANT NodesReachEveryServer
PROPERTY ReplacementKeepsNode
CHECK_DEADLOCK FALSE
