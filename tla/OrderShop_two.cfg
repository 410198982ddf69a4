SPECIFICATION FairSpec
CONSTANTS
  c1 = c1  c2 = c2
  apple = apple  mango = mango
  NULL = NULL  NOITEM = NOITEM  SHORT = SHORT
  Clients = {c1, c2}
  Items = {apple, mango}
  First = apple
  InitialStock <- SmallStock
  Orders <- SomeOrders
  Garbage <- SomeGarbage
  MaxFd = 2
  Slow = {c1}
  Mortal = {c1, c2}
INVARIANTS SalesInOrder ToldRight
PROPERTIES ShopSpec EveryoneServed
CHECK_DEADLOCK FALSE
