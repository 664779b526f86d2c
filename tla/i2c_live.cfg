\* Two users in main that ask i2c_swamped() before every call.
SPECIFICATION FairSpec
CONSTANTS
  k1 = k1
  k2 = k2
  NULL = NULL
  MainClients <- TwoMain
  IsrClients <- NoIsr
  UsedCalls <- PlainCalls
  I2CQ_L = 3
  MaxLen = 2
  Guarded = TRUE
INVARIANT
  GuardedCallNeverBlocks
PROPERTY
  EveryRequestEnds
