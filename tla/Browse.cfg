SPECIFICATION Spec
CONSTANTS
  root = root
  server = server
  a = a
  b = b
  NoNode = NoNode
  Node <- Nodes
  Root = root
  ServerNode = server
  Spaces <- AllSpaces
  Numberings <- BothNumberings
  Capacity = 5
  MaxSearches = 2
INVARIANT TypeOK
INVARIANT DepthIsBounded
INVARIANT ParentIsFound
INVARIANT ServerSubtreeIsRecognised
INVARIANT ArraysLast
INVARIANT ClientCopiesAll
CHECK_DEADLOCK FALSE
