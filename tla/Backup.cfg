SPECIFICATION Spec
CONSTANTS
  k1 = k1
  k2 = k2
  Boot = b
  Timer = t
  MaxVersion = 2
  MaxFailures = 3
CONSTANTS
  Keys <- MCKeys
INVARIANTS TypeOK MarkedIsStored ReportedIsEnabled
PROPERTIES EveryKeyIsBackedUp
CHECK_DEADLOCK FALSE
