SPECIFICATION Spec
CONSTANTS
  Deployments <- AllDeployments
  MaxPasses = 2
  Boundary = {" "}
  Blanks = {" "}
  Digits = {"7"}
  CharBytes <- GuardBytes
  Spelling <- Spelled
  TextLengths = {12}
  StructureSizes = {3}
  RecursionDepths = {1}
  TokenRatios = {2}
  Defaults <- LengthDefaults
  MaxNumericBytes = 6
  UnwrapDepth = 1
  Words <- SqlWords
  DefaultBlocked = {"DROP"}
  Lower <- LowerLabels
  HostLabel <- HostLabels
  ValidTlds = {"com"}
  ShortDomain = 8
INVARIANTS
  LengthWithinLimits
  LengthOnlyCuts
  LengthBlocksExactly
  SqlStatementsIndependent
  SqlOnlyLiveCodeCounts
  SqlForwardsWhatItJudged
  
CHECK_DEADLOCK FALSE
