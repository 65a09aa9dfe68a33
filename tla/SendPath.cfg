\* Two sends; no sync is processed while one of them stores an answer.
SPECIFICATION FairSpec
CONSTANTS
  Senders = {"a1", "a2"}
  Users = {"u1"}
  Encryption = "m.room.encryption"
  Overlap = FALSE
  MaxChanges = 2
INVARIANTS TypeOK NoPlaintext  MembershipRespected
PROPERTIES EverySendEnds
