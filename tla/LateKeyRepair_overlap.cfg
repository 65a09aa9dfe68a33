\* Handlers overlap freely, are dropped, and the proxy restarts; one more
\* placeholder than the queue holds.
SPECIFICATION Spec
CONSTANTS
  e1 = e1
  e2 = e2
  e3 = e3
  k1 = k1
  k2 = k2
  r1 = r1
  r2 = r2
  s1 = s1
  s2 = s2
  g1 = g1
  NoSession = NoSession
  Events = {e1, e2}
  Sessions = {k1}
  SessionOf <- OneSession
  Rooms = {r1}
  RoomOf <- SameRoom
  Syncs = {s1}
  Histories = {g1}
  MaxPending = 1
  Serial = FALSE
  MaxImports = 1
  MaxLosses = 1
  MaxRestarts = 1
SYMMETRY Symmetry
INVARIANTS TypeOK NoSleepOnReady ReadyMeansWaiting
PROPERTIES UsesQueue
