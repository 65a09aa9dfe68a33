\* A key is noted between a failed decryption and track.
SPECIFICATION Spec
CONSTANTS
  e1 = e1
  e2 = e2
  e3 = e3
  k1 = k1
  k2 = k2
  r1 = r1
  r2 = r2
  s1 = s1
  s2 = s2
  g1 = g1
  NoSession = NoSession
  Events = {e1}
  Sessions = {k1}
  SessionOf <- OneEvent
  Rooms = {r1}
  RoomOf <- OneRoom
  Syncs = {s1}
  Histories = {g1}
  MaxPending = 1
  Serial = FALSE
  MaxImports = 0
  MaxLosses = 0
  MaxRestarts = 0
INVARIANTS KeyNeverMissed
