CONSTANTS
  Callers = {c1}
  InitCallers = {c1}
  Chains = {k1}
  Logins = {m1}
  Servers = {s1, s2}
  Periods = {p1}
  Interfaces = {i1, i2}
  None = None
  Thrown = Thrown

SPECIFICATION Spec

INVARIANT InitedOnServer
