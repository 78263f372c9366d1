CONSTANTS
  Callers = {c1, c2}
  InitCallers = {c1, c2}
  Chains = {k1, k2}
  Logins = {m1}
  Servers = {s1, s2}
  Periods = {p1}
  Interfaces = {i1, i2, i3, i4}
  None = None
  Thrown = Thrown

SPECIFICATION Spec

SYMMETRY Symmetry

INVARIANTS
  LockDiscipline
  OpeningIsNew
  TokenIsRegistered
  SessionOnItsServer
PROPERTY ImplementsRegistry
