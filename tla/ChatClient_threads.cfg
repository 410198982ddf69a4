SPECIFICATION FairSpec
CONSTANTS
  hi = hi  you = you
  Texts = {hi, you}
  EXIT = EXIT  EMPTY = EMPTY  NAME = NAME
  MaxTyped = 3
  MaxNews = 2
  MaxHeard = 5
  SockBuf = 2
INVARIANTS TypeOK Delivered
PROPERTIES ThreadsFinish
CHECK_DEADLOCK FALSE
