SPECIFICATION Spec
CONSTANTS
  a = a
  b = b
  f1 = f1
  f2 = f2
  u1 = u1
  u2 = u2
  u3 = u3
  h1 = h1
  h2 = h2
  MaxFailures = 1
CONSTANTS
  Sessions <- MCSessions
  Files <- MCFiles
  Uris <- MCUris
  Handlers <- MCHandlers
SYMMETRY MCSymmetry
INVARIANTS TypeOK   PlainOnlyWhenAsked
CHECK_DEADLOCK FALSE
