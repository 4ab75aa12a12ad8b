SPECIFICATION FairSpec
CONSTANTS
  Key = {1}
  Scalars <- OneScalar
  Raw = FALSE
  Uses = {"var", "array", "object", "reset"}
  MaxNodes = 6
  MaxJoins = 2
  MaxFields = 2
  Snapshots = {}
  Val <- OneScalarVal
  Shape <- OneScalarShape
INVARIANTS SnapshotReloads
PROPERTIES JoinEnds
CHECK_DEADLOCK FALSE
