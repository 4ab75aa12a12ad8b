SPECIFICATION FairSpec
CONSTANTS
  Schema <- MCSchema
  Value <- MCValue
  Key <- MCKey
  Node <- MCNode
  Heap <- MCHeap
  Roots <- ListRoot
  Writes <- MCWrites
  NoSchema = NoSchema
  Undefined = "undefined"
  Null = Null
  Missing = Missing
  Accessor = Accessor
  Task <- MCTask
  Entry <- OneOfEach
  MaxDepth = 6
  YieldEvery = 3
  MaxWrites = 1
INVARIANTS BurstBounded
PROPERTIES QuietVerdictExact AllSettle
CHECK_DEADLOCK FALSE
