SPECIFICATION FairSpec
CONSTANTS
  c1 = c1  c2 = c2  c3 = c3
  p1 = p1  p2 = p2  p3 = p3
  NULL = NULL
  LOG = LOG
  Clients = {c1, c2}
  Ptrs = {p1, p2}
  CIDs <- TwoCIDs
  MAX_CONNECTIONS = 2
  MaxFd = 4
  MaxMsgs = 1
  MaxAcceptErrors = 0
  SockBuf = 1
  Talkers = {c1}
  Leavers = {c1, c2}
  Readers = {c1, c2}
PROPERTIES RealTime AllRead DepartedForgotten
CHECK_DEADLOCK FALSE
