CONSTANTS
  a = a
  None = None
  Members = {o1, o2}
  Logins = {a}
  Symbols = {}
  Owner <- OneAccount
  World = {"records"}
  MaxFeed = 2
  MaxBacklog = 1
  MaxDrops = 1
  SetKeys <- MCSetKeys
  StringKeys <- MCStringKeys
  Values <- MCValues
  PastTexts <- MCPastTexts

SPECIFICATION Spec

SYMMETRY OrderSymmetry

CHECK_DEADLOCK FALSE

INVARIANTS
  WorkingMatchesOpen
  OpenOrdersWorking
  RecordIsLatest
  NoticeAfterClose
