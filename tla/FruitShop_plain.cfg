SPECIFICATION FairSpec
CONSTANTS
  c1 = c1  c2 = c2  c3 = c3
  a1 = a1  a2 = a2
  NULL = NULL
  Clients = {c1, c2, c3}
  Addr <- ReusedPort
  Names <- PlainNamesList
  InitialStock <- PlainStock
  Orders <- PlainOrders
  Letters <- FewLetters
  Lower <- LowerCase
  ClientLens = {"full", "short", "negative"}
  MAX_CON = 3
  MaxFd = 2
  Mortal = {c2, c3}
  Interrupts = TRUE
INVARIANTS TypeOK SalesListed CustomersOnce RefusedUnsold 
PROPERTIES ShopSpec EveryoneServed
CHECK_DEADLOCK FALSE
