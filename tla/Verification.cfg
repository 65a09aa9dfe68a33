SPECIFICATION Spec
CONSTANTS
  ours = ours
  theirs = theirs
  ctl = ctl
  other = other
  Cli = ctl
  MaxFinished = 1
  MaxFailures = 1
CONSTANTS
  Flows <- MCFlows
  Ours <- MCOurs
  Foreign <- MCForeign
  InRoom <- MCForeign
  Admins <- MCAdmins
  Commands <- MCCommands
INVARIANTS TypeOK  
PROPERTIES RunEnds
CHECK_DEADLOCK FALSE
