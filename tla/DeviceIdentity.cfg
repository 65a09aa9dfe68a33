\* Two handlers, three devices, one of them by ement's own name for it.
SPECIFICATION Spec
CONSTANTS
  Devices = {e, d1, d2}
  Ement = e
  e = e
  d1 = d1
  d2 = d2
  Handlers = {h1, h2}
  MaxTokens = 2
  MaxKeys = 2
  MaxSignOuts = 1
  MaxRestarts = 1
SYMMETRY Symmetry
INVARIANTS TypeOK ContextMatches LoggingInHelps KeysOnTheirWay
PROPERTIES NeverKnowinglyReplaced
