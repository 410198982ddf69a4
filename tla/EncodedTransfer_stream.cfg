SPECIFICATION FairSpec
CONSTANTS
  W = 5
  CharBits = 3
  KEY = 2
  SENTENCE = 2
  BLOCK = 4
  BUFSIZ = 6
  Sources <- SomeSources
  Unread <- SomeUnread
  SPACE = SPACE  SIZE = SIZE  NUL = NUL  UNWRITTEN = UNWRITTEN  CUT = CUT
INVARIANTS DecodedExact PieceOfText
PROPERTIES BothEnd
CHECK_DEADLOCK FALSE
