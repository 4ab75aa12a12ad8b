SPECIFICATION CheckSpec
CONSTANTS
  Schema <- AllSchema
  Value <- AllValue
  Key <- WideKey
  Node <- AllNode
  Heap <- AllHeap
  Roots <- AllRoots
  NoSchema = NoSchema
  Undefined <- WideUndefined
  Null <- WideNull
  Missing = Missing
  NoLimit = NoLimit
  Accessor = Accessor
  MaxDepth = 24
INVARIANTS VerdictMatchesDenotation UnguardedOnlyBelowGuard ShortcutsAgree
  IssuesAreReal FirstIssueIsFirst SameDiagnostics
CHECK_DEADLOCK FALSE
