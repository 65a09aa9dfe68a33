\* A handler dropped while the OlmMachine works: its events count as seen.
SPECIFICATION Spec
CONSTANTS
  h1 = h1
  h2 = h2
  Handlers = {h1, h2}
  NoHandler = NoHandler
  Capacity = 2
  Limit = 2
  DropAt = {"upstream", "lock", "machine"}
  MaxSent = 3
  MaxFaults = 3
SYMMETRY Symmetry
INVARIANT NothingLost
