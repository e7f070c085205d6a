SPECIFICATION Spec
CONSTANTS
  Deployments <- AllDeployments
  Letters = {"a", "b", "c", "z", "Z"}
  HexLetters = {"a", "b", "c"}
  Capitals = {"Z"}
  WordChars <- WordSymbols
  DigitValue <- Decimal
  MaxTextBytes = 100
  MaxNestedDepth = 9
  MaxCollectionItems = 99
  PiiDefaults <- Redacted
  Alphabet <- Alphabets
  MinRun <- Runs
  Layers <- SomeLayers
  SensitiveKeywords = {"p"}
  EgressHints = {"u"}
  HintReach = 2
  Widths <- SymbolWidths
  PreviewLength = 2
  JsonOf <- JsonTexts
  KeyTexts <- LongKeys
  ScanDefaults <- ScanDefault
  Size <- Sizes
  KeyMarks <- Marks
  SecretDefaults <- SecretDefault
INVARIANTS
  PiiEarliestThenLongest
  PiiCountsHonest
  PiiMasksCallersSpans
  ExfilCountsSegments
  
  SecretsTakenWhole
CHECK_DEADLOCK FALSE
