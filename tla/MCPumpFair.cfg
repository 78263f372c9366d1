CONSTANTS
  a = a
  None = None
  Members = {o1}
  Logins = {a}
  Symbols = {}
  Owner <- OneAccount
  World = {"tick"}
  MaxFeed = 1
  MaxBacklog = 1
  MaxDrops = 1
  SetKeys <- MCSetKeys
  StringKeys <- MCStringKeys
  Values <- MCValues
  PastTexts <- MCPastTexts

SPECIFICATION FairSpec

CHECK_DEADLOCK FALSE

PROPERTIES
  PumpingReturns
  ClosedLeavesWorking
