\* Users that ask for values and means while the converter runs.
SPECIFICATION FairSpec
CONSTANTS
  NONE = NONE
  Channel <- AllKinds
  N_SAMPLES = 4
INVARIANTS
  TypeOK
  ValueIsOfPrepared
  RestedMeanIsGood
PROPERTIES
  RefsEnforced
  AnswerComes
\* The program stops for good in alert_fatal.
CHECK_DEADLOCK FALSE
