\* Main writes, reads, opens and closes while the line is busy both ways.
SPECIFICATION Spec
CONSTANTS
  cr = cr
  nl = nl
  NONE = NONE
  CR = cr
  NL = nl
  Byte <- Line
  Texts <- ShortTexts
  QL = 3
VIEW LiveState
INVARIANTS
  TypeOK
  ChecksStayValid
  SenderAwake
  ClosedIsQuiet
PROPERTIES
  OnlyOwnBit
  SendsInOrder
  ReceivesInOrder
