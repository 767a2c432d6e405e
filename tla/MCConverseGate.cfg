SPECIFICATION Spec
CONSTANTS
  i1 = i1
  i2 = i2
  c1 = c1
  s1 = s1
  s2 = s2
  Ops = {o1}
  Requests = {r1, r2}
  Issuers = {i1, i2}
  Creds = {c1}
  IssuerLists <- MCIssuerLists
  MaxFaults = 1
  NoValue = NoValue
  Mandates <- MCMandates
  GlobalIssuers = {i2}
  TicksPerSecond = 2
  RateLimit = 1
  Window = 2
  MaxAge = 1
  SeenTtl = 2
  MaxTime = 3
SYMMETRY GateSymmetry
CHECK_DEADLOCK FALSE
INVARIANTS TypeOK GateIsExact AcceptedWasTrusted KeysAgree
PROPERTIES LaterUseOnlyAtEdge
