CONSTANTS
  j1 = j1
  j2 = j2
  j3 = j3
  d1 = d1
  d2 = d2
  w1 = w1
  w2 = w2
  r1 = r1
  r2 = r2
  NoJob = NoJob
  Jobs = {j1, j2}
  Domains = {d1}
  Workers = {w1}
  Reconcilers = {r1}
  DomainOf <- MCDomainOf
  Seats <- MCSeats
  InitialSeats <- MCInitialSeats
  Cap = 6
  CommitCap = 3
  Batch = 3
  Durable = FALSE
  Faults = {"late", "dispatch"}
  MaxCrashes = 1
SPECIFICATION FairSpec
CHECK_DEADLOCK FALSE
PROPERTIES
  EveryJobSettles
