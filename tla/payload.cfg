CONSTANTS
  Values <- MCValues
  Schemas <- MCSchemas
  Nesting <- MCNesting
  MaxSchemaDepth = 3
  MaxArgumentDepth = 3
  Entries <- MCEntries
  Arguments <- MCArguments
  Results <- MCResults
  Request <- MCRequest
  Response <- MCResponse
  Utf8 <- MCUtf8
  FloatBits = 4
  FloatPlaces = 6
  Tolerance = 8
SPECIFICATION Spec
CHECK_DEADLOCK FALSE
INVARIANTS
  EveryKeywordEnforced
  SentIsProved
  OnlyDeclaredNames
  LegalArgumentsPass
  DeliveredIsReviewed
  DuplicateMeansTheSame
