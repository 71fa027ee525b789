CHECK_DEADLOCK FALSE
CONSTANTS
  w1 = w1
  w2 = w2
  f1 = f1
  f2 = f2
  m1 = m1
  s1 = s1
  s2 = s2
  Workers = {w1, w2}
  Fixes = {f1, f2}
  Marks = {m1}
  Servers = {s1, s2}
  Homes <- MCHomes
  Starts <- MCStarts
  MakeTries = 2
  ConfirmTries = 2
  Faults = {"error", "lost", "hidden", "store", "crash"}
  MaxMishaps = 1
SPECIFICATION FairSpec
INVARIANTS
  TypeOK
  FlagIsEarned
  FixIsReadBack
  OneRepairPerServer
  CredentialsNameAUser
PROPERTIES
  RepairNeverRelists
  RepairsEnd
