\* Two handlers overlap; abandoned ones are dropped before they hold the lock.
SPECIFICATION FairSpec
CONSTANTS
  h1 = h1
  h2 = h2
  Handlers = {h1, h2}
  NoHandler = NoHandler
  Capacity = 2
  Limit = 2
  DropAt = {"upstream", "lock"}
  MaxSent = 3
  MaxFaults = 3
INVARIANTS TypeOK InOrder NothingLost OnceUnlessEvicted
PROPERTIES ImplementsChannel EventuallyHanded
