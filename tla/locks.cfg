SPECIFICATION Spec
CONSTANTS
  j1 = j1
  j2 = j2
  a1 = a1
  NoOwner = NoOwner
  Clients = {j1, j2, a1}
  Jobs = {j1, j2}
  Unique = TRUE
  AnswersLost = TRUE
  MaxVersion = 3
INVARIANT
  TypeOK
PROPERTIES
  ImplementsLeaseLock
  ReleasedForGood
CHECK_DEADLOCK FALSE
