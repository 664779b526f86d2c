\* A user in main that asks i2c_swamped() before every call, i2c_sandr too.
SPECIFICATION FairSpec
CONSTANTS
  k1 = k1
  k2 = k2
  NULL = NULL
  MainClients <- OneMain
  IsrClients <- NoIsr
  UsedCalls <- PairCalls
  I2CQ_L = 3
  MaxLen = 2
  Guarded = TRUE
PROPERTY
  BlockedCallIsAccepted
CHECK_DEADLOCK FALSE
