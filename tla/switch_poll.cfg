\* Two switches, any order of calls, contacts that bounce at any moment.
SPECIFICATION FairSpec
CONSTANTS
  d2 = d2
  d3 = d3
  NONE = NONE
  Pin <- Pins
  MAX_SWITCH = 2
  WINDOW = 2
INVARIANTS
  TypeOK
  TimerRunsForSampled
  FlagsNotTorn
PROPERTIES
  AnswerIsKept
  PollIsAnswered
