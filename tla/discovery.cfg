SPECIFICATION Spec
CONSTANTS
  Manifest <- MCManifest
  Offered <- MCOffered
  a = a
  b = b
  c = c
  Cursors = {a, b, c}
  NoCursor = NoCursor
  Null = Null
  Malformed = Malformed
  MaxPageTools = 2
  MaxPages = 3
  MaxTools = 3
  MaxBytes = 6
SYMMETRY CursorSymmetry
INVARIANTS
  WithinBudgets
  CompleteMeansWhole
  ReadyIffReviewed
CHECK_DEADLOCK FALSE
