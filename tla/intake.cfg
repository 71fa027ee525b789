CHECK_DEADLOCK FALSE
CONSTANTS
  c1 = c1
  c2 = c2
  c3 = c3
  k1 = k1
  k2 = k2
  d1 = d1
  d2 = d2
  NoKey = NoKey
  NoItem = NoItem
  Calls = {c1, c2, c3}
  Keys = {k1, k2}
  Domains = {d1, d2}
  Scenarios <- MCScenarios
  MaxItems = 2
  Cap = 2
  CommitCap = 1
  FlexMax = 2
  Every = 2
  Faults = {"busy", "create", "store", "raise", "lost", "crash"}
  MaxMishaps = 1
SPECIFICATION FairSpec
INVARIANTS
  TypeOK
  
  KeysAreSpentOnResults
  SlotsPartition
  NothingElseLeaks
  
PROPERTIES
  AllIsReturned
