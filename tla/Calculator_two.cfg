SPECIFICATION FairSpec
CONSTANTS
  c1 = c1  c2 = c2
  Clients = {c1, c2}
  Texts <- SomeTexts
  Garbage <- SomeGarbage
  Beyond <- SomeBeyond
  Digit <- SomeDigits
  NL = "nl"  ZERO = "zero"
  BLOCK = 6
  INT_MAX = 7
  Split = {c1}
  Mortal = {c1}
  NULL = NULL
INVARIANTS Calculates
PROPERTIES EveryoneAnswered
CHECK_DEADLOCK FALSE
