CONSTANTS
  a = a
  None = None
  Members = {o1, o2}
  Logins = {a}
  Symbols = {}
  Owner <- OneAccount
  World = {"restore"}
  MaxFeed = 2
  MaxBacklog = 2
  MaxDrops = 0
  SetKeys <- MCSetKeys
  StringKeys <- MCStringKeys
  Values <- MCValues
  PastTexts <- MCPastTexts

SPECIFICATION Spec

INVARIANT OpenOrdersWorking
