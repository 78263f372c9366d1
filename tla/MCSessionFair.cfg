CONSTANTS
  Callers = {c1, c2}
  InitCallers = {c1}
  Chains = {k1}
  Logins = {m1}
  Servers = {s1}
  Periods = {p1}
  Interfaces = {i1, i2, i3}
  None = None
  Thrown = Thrown

SPECIFICATION FairSpec

PROPERTIES
  CallsReturn
  SessionsPinged
