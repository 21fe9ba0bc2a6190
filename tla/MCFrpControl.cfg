SPECIFICATION FairSpec
CONSTANTS
  r1 = r1
  r2 = r2
  r3 = r3
  k1 = k1
  k2 = k2
  n1 = n1
  None = None
  RunIDs = {r1, r2, r3}
  ClientOf <- MCClientOf
  Names = {n1}
  Ports = {1, 2}
  Requests <- MCRequests
  MaxPortsPerClient = 1
  MaxLogins = 3
  MaxRequests = 2
  MaxBreaks = 1
  EarlyRetry = FALSE
CHECK_DEADLOCK FALSE
INVARIANTS
    OneSession
    NothingLeaks
    RunningReachable

    
