SPECIFICATION Spec
CHECK_DEADLOCK FALSE
CONSTANTS
  MaxDerivations = 3
  Sizes <- MCSizes
  Matching <- MCMatching
  Holding <- MCHolding
  Spelling <- MCSpelling
INVARIANTS
  ExportIsLossless
  ImportMeansDocument
  GuardMeansItsHistory
 
