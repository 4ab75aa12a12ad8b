SPECIFICATION FairSpec
CONSTANTS
  Schema <- MCSchema
  Value <- MCValue
  Key <- MCKey
  Node <- MCNode
  NoSchema = NoSchema
  Undefined = "undefined"
  Null = "null"
  Missing = Missing
  Accessor = Accessor
  Strip <- MCStrip
  Readonly <- MCReadonly
  Fresh <- MCFresh
  Cases <- MCCases
  InputFrozen = {}
INVARIANTS OutputProjected
PROPERTIES WritesOnlyToOwnOutputs Returns
CHECK_DEADLOCK FALSE
