\* One user in main and one in a timer action, any call at any moment.
SPECIFICATION Spec
CONSTANTS
  k1 = k1
  k2 = k2
  NULL = NULL
  MainClients <- OneMain
  IsrClients <- OneIsr
  UsedCalls <- MixedCalls
  I2CQ_L = 3
  MaxLen = 2
  Guarded = FALSE
VIEW LiveState
INVARIANTS
  TypeOK
  AutomatonAwake
  BusFollowsAutomaton
  StoreInBounds
  RunningIffOwed
PROPERTIES
  CurrentNotOverwritten
  SuccessIsTransferred
  ErrorIsReal
  ImplementsService
\* A call on a full queue never returns: finding i2c_blocked.
CHECK_DEADLOCK FALSE
