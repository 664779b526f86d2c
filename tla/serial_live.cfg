\* Whether writing and closing always end; all bytes are alike.
SPECIFICATION FairSpec
CONSTANTS
  cr = cr
  nl = nl
  NONE = NONE
  CR = cr
  NL = cr
  Byte <- Same
  Texts <- OneText
  QL = 3
PROPERTIES
  EveryByteIsSent
  CallsReturn
