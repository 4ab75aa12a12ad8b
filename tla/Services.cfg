SPECIFICATION Spec
CONSTANTS
  Stateful <- MCStateful
  MatchEnd <- MCMatchEnd
  Spelled <- MCSpelled
  Ranges <- MCRanges
  FormatNamed <- MCFormatNamed
  BaseLength <- MCBaseLength
  Seeds <- MCSeeds
  Mapped <- MCMapped
  MaxChecks = 2
  Schemas = {s1, s2, s3}
  Ids = {"x", "y"}
  NoId = "none"
  MaxRefs = 4
  Guards = {g1, g2}
  Keys = {"user"}
  Modes = {}
  Names <- MCNames
  NamePrefixes <- MCNamePrefixes
  MaxFrames = 2
  MaxPlans = 2
  Callsites = {c1, c2, c3}
  Threshold = 3
  Window = 1
  Limit = 1
  MaxTime = 4
  MaxCount = 3
INVARIANTS
  ScalarEnginesAgree
  SelfDescriptionTrue
  IdsUnique
  CacheServesSlot
  WarningMeansBurst
CHECK_DEADLOCK FALSE
