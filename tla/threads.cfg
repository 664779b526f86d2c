\* Threads that delay and exclude each other, while the counter goes round.
SPECIFICATION FairSpec
CONSTANTS
  a = a
  b = b
  c = c
  mutex = mutex
  unit = unit
  TICKS = 8
  Speed = 1
  Work = 2
  Times <- Given
  Thread <- Threads
  Order <- Two
  Child <- ChildOf
  Function <- Threads
  Code <- Own
  May <- Operations
  Sem = {mutex}
  Unit = {unit}
INVARIANTS
  TypeOK
  EndsInTime
  UnitsCounted
PROPERTIES
  NeverShort
  NobodyLeftBehind
