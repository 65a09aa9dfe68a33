\* One answer at a time; the key of one session comes with a sync or an import,
\* and one event names no session.
SPECIFICATION FairSpec
CONSTANTS
  e1 = e1
  e2 = e2
  e3 = e3
  k1 = k1
  k2 = k2
  r1 = r1
  r2 = r2
  s1 = s1
  s2 = s2
  g1 = g1
  NoSession = NoSession
  Events = {e1, e2, e3}
  Sessions = {k1}
  SessionOf <- OneNameless
  Rooms = {r1, r2}
  RoomOf <- TwoRooms
  Syncs = {s1}
  Histories = {g1}
  MaxPending = 3
  Serial = TRUE
  MaxImports = 1
  MaxLosses = 0
  MaxRestarts = 0
INVARIANTS  KeyNeverMissed
PROPERTIES  ReadinessEnds
