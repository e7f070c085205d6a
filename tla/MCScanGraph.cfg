SPECIFICATION Spec
CONSTANTS
  Secret = Secret
  Redacted = Redacted
  Keys <- MCKeys
  Graphs <- PlainGraphs
  Configs <- MCConfigs
INVARIANTS OriginalsUntouched PassesAgree ShapeKept NothingLeaks FieldsHonoured
