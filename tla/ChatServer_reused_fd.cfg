SPECIFICATION Spec
CONSTANTS
  c1 = c1  c2 = c2  c3 = c3
  p1 = p1  p2 = p2  p3 = p3
  NULL = NULL
  LOG = LOG
  Clients = {c1, c2, c3}
  Ptrs = {p1, p2, p3}
  CIDs <- TwoCIDs
  MAX_CONNECTIONS = 1
  MaxFd = 6
  MaxMsgs = 1
  MaxAcceptErrors = 0
  SockBuf = 1
  Talkers = {c1}
  Leavers = {c3}
  Readers = {c1, c2, c3}
INVARIANTS LogOnlyRecords
SYMMETRY PtrSymmetry
CHECK_DEADLOCK FALSE
