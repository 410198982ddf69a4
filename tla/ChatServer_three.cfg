SPECIFICATION Spec
CONSTANTS
  c1 = c1  c2 = c2  c3 = c3
  p1 = p1  p2 = p2  p3 = p3
  NULL = NULL
  LOG = LOG
  Clients = {c1, c2, c3}
  Ptrs = {p1, p2, p3}
  CIDs <- TwoCIDs
  MAX_CONNECTIONS = 2
  MaxFd = 6
  MaxMsgs = 0
  MaxAcceptErrors = 0
  SockBuf = 2
  Talkers = {}
  Leavers = {c3}
  Readers = {c1, c2, c3}
INVARIANTS RoomOrder NoDangling BroadcastReaches
PROPERTIES EchoOnlyViaStaleEntry
SYMMETRY PtrSymmetry
CHECK_DEADLOCK FALSE
