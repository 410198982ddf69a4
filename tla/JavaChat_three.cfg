SPECIFICATION FairSpec
CONSTANTS
  c1 = c1  c2 = c2  c3 = c3
  NULL = NULL
  Clients = {c1, c2, c3}
  Port <- SharedPort
  Lines <- ThreeAndOne
  SockBuf = 1
  Capacities = {2}
  Leavers = {c2}
  Prompt = {c1, c2, c3}
INVARIANTS TypeOK HeardUnlessCutOff
PROPERTIES RelaySpec NobodyStuck
CHECK_DEADLOCK FALSE
