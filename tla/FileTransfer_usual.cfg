SPECIFICATION FairSpec
CONSTANTS
  c1 = c1  c2 = c2  c3 = c3
  NULL = NULL  ZERO = "0"
  Clients = {c1, c2, c3}
  Uploaders = {c1, c2}
  Op <- UsualOp
  Name <- UsualName
  Local <- UsualLocal
  Chars <- MCChars
  UPLOAD <- Up
  DOWNLOAD <- Dn
  BUFFSIZE = 3
  InitialFiles <- UsualFiles
  SockBuf = 6
  BLOCK = 2
  Whole = {c1}
  Mortal = {c1, c3}
INVARIANTS TypeOK StoredRight DownloadRight
PROPERTIES EveryoneServed
CHECK_DEADLOCK FALSE
