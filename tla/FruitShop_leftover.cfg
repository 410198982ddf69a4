SPECIFICATION Spec
CONSTANTS
  c1 = c1  c2 = c2  c3 = c3
  a1 = a1  a2 = a2
  NULL = NULL
  Clients = {c1, c2}
  Addr <- TwoPorts
  Names <- PlainNamesList
  InitialStock <- WidthStock
  Orders <- WidthOrders
  Letters <- FewLetters
  Lower <- LowerCase
  ClientLens = {"full"}
  MAX_CON = 3
  MaxFd = 3
  Mortal = {}
  Interrupts = FALSE
INVARIANTS AsOrdered
CHECK_DEADLOCK FALSE
