SPECIFICATION FairSpec
CONSTANTS
  q1 = q1
  q2 = q2
  q3 = q3
  d1 = d1
  d2 = d2
  s1 = s1
  s2 = s2
  s3 = s3
  NoReq = NoReq
  NoSub = NoSub
  Requests = {q1, q2, q3}
  Domains = {d1, d2}
  Subs = {s1, s2, s3}
  Calls <- MCCalls
  Customer <- MCCustomer
  LocalSub <- MCLocalSub
  Plan <- MCPlan
  InitialSeats <- MCInitialSeats
  MaxSeats <- MCMaxSeats
  Cap = 7
  Batch = 1
  Attempts = 2
  Faults = {"error", "lost", "halfDone", "counter", "store", "google"}
  MaxMishaps = 2
INVARIANTS
  TypeOK
  OneActionPerDomain
  SoldIsCounted
  BooksBalance
  ReportMatchesCounter
  RecordFollowsGoogle
PROPERTIES
  TransferIsFinal
  EveryActionAnswered
CHECK_DEADLOCK FALSE
