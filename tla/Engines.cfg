SPECIFICATION Spec
CONSTANTS
  Schema <- Schemas
  Value <- Values
  Key <- Keys
  Node <- NodeOf
  NoSchema = NoSchema
  Undefined = "undefined"
  Null = "null"
  Missing = Missing
  Accessor = Accessor
  True = "true"
  False = "false"
  NaN = "nan"
  Primitive <- PrimitiveOf
  Measure <- MeasureOf
  Unbounded = {"infinity"}
  Whole = {"one", "five"}
  Leaf <- LeafOf
  Heap <- HeapOf
  Roots <- RootsOf
  Crafted <- CraftedTerms
INVARIANTS
  MeaningKept
  NoNewCalls
  CompiledAgrees
CHECK_DEADLOCK FALSE
