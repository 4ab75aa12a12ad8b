SPECIFICATION Spec
CONSTANTS
  Key = {1, 2}
  Scalars <- MCScalars
  Raw = FALSE
  Uses = {}
  MaxNodes = 13
  MaxJoins = 2
  MaxFields = 7
  Snapshots <- Arenas
  Val <- MCVal
  Shape <- MCShape
INVARIANTS SpansIsolated JoinUpperBound
PROPERTIES ImplementsFieldLists
CHECK_DEADLOCK FALSE
