SPECIFICATION FairSpec
CONSTANTS
  r1 = r1
  r2 = r2
  r3 = r3
  h1 = h1
  h2 = h2
  Runs = {r1, r2, r3}
  Starters = {h1, h2}
  NoRun = NoRun
  Cap = 1
  MaxCancelled = 1
  MaxFaults = 1
INVARIANTS
  TypeOK
  CapHolds
  CancelledInTime
PROPERTIES
  RunsEnd
CHECK_DEADLOCK FALSE
