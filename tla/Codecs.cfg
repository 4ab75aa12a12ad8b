SPECIFICATION CodecsSpec
CONSTANTS
  KeyOrder <- MCKeyOrder
  Lazies <- MCLazies
  Never = "never"
  Fresh = "fresh"
  Raw = "raw"
  Roots <- MCRoots
  RootOf <- MCRootOf
  Inputs <- MCInputs
  Extensions <- MCExtensions
  Selections <- MCSelections
  Predicates <- MCPredicates
  MaxMade = 3
  NoUse = NoUse
  JsonMaxDepth = 2
  LargestExponent = 10
  SafeDigits = 3
INVARIANTS EncodesBack RefinementsKept ReadsBack
CHECK_DEADLOCK FALSE
