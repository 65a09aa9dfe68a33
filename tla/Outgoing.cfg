\* A pump of the session's own, one in a handler, and a task for a room key.
SPECIFICATION FairSpec
CONSTANTS
  Pumps = {"own", "handler"}
  Droppable = {"handler"}
  Sessions = {"s1"}
  MaxRequests = 4
  MaxFailures = 2
INVARIANTS TypeOK SentOnce AskedMeansSent
PROPERTIES EverythingSent
