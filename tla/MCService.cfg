CONSTANTS
  Main = main
  Callers = {main}
  InitCallers = {main}
  Chains = {k1, k2}
  Logins = {m1}
  Servers = {s1, s2}
  Periods = {p1, p2}
  Interfaces = {i1, i2}
  None = None
  Thrown = Thrown

SPECIFICATION ServiceFairSpec

CHECK_DEADLOCK FALSE

INVARIANT SessionAsConfigured
PROPERTIES
  InterruptEndsWait
  WaitingPings
