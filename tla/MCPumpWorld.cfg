CONSTANTS
  a = a
  None = None
  Members = {o1}
  Logins = {a}
  Symbols = {}
  Owner <- OneAccount
  World = {"restore", "pending", "tick", "purge", "nouser"}
  MaxFeed = 2
  MaxBacklog = 1
  MaxDrops = 1
  SetKeys <- MCSetKeys
  StringKeys <- MCStringKeys
  Values <- MCValues
  PastTexts <- MCPastTexts

SPECIFICATION Spec

CHECK_DEADLOCK FALSE

INVARIANTS
  TypeOK
  AnswerIsOwed
  OnlyMarginsLinger
  WorkingMatchesOpen
PROPERTY WorkingLosesOnlyClosed
