SPECIFICATION CheckSpec
CONSTANTS
  Schema <- SmallSchema
  Value <- SmallValue
  Key <- SmallKey
  Node <- SmallNode
  Heap <- SmallHeap
  Roots <- SmallRoots
  NoSchema = NoSchema
  Undefined = "undefined"
  Null = "null"
  Missing = Missing
  NoLimit = NoLimit
  Accessor = Accessor
  MaxDepth = 4
INVARIANTS ActiveMatchesStack VerdictExact RejectionExplained
CHECK_DEADLOCK FALSE
