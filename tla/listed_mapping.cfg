CONSTANTS
  Values <- MCListedValues
  Schemas <- MCSchemas
  Nesting <- MCListedNesting
  MaxSchemaDepth = 3
  MaxArgumentDepth = 3
  Entries <- MCEntries
  Arguments <- MCListedArguments
  Results <- MCResults
  Request <- MCRequest
  Response <- MCResponse
  Utf8 <- MCUtf8
  FloatBits = 4
  FloatPlaces = 6
  Tolerance = 8
SPECIFICATION Spec
CHECK_DEADLOCK FALSE
INVARIANT SentIsProved
