\* A sync is processed while a send stores that the room is not encrypted.
SPECIFICATION Spec
CONSTANTS
  Senders = {"a1", "a2"}
  Users = {"u1"}
  Encryption = "m.room.encryption"
  Overlap = TRUE
  MaxChanges = 2
INVARIANT NoPlaintext
