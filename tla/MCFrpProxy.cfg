SPECIFICATION ProxyFairSpec
CONSTANTS
  Troubles <- MCBenign
  MaxTroubles = 4
CHECK_DEADLOCK FALSE
INVARIANTS
    RunningIsServed

    
