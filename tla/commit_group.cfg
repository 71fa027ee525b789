CONSTANTS
  c1 = c1
  c2 = c2
  c3 = c3
  s1 = s1
  s2 = s2
  NoValue = NoValue
  Callers = {c1, c2, c3}
  Servers = {s1, s2}
  ServerOf <- MCServerOf
  Delta <- MCDelta
  Capped = {c1, c3}
  Limit = 3
  InitialValue = 2
  Missing = 0
  NewCaps = {2}
  MaxEdits = 1
  MaxAttempts = 2
  Faults = {"storeError", "lostAnswer", "timeout"}
SPECIFICATION FairSpec
CHECK_DEADLOCK FALSE
INVARIANTS
  TypeOK
  OneDrainerPerServer
PROPERTIES
  ImplementsAtomicDocument
  EveryUpdateFinished
