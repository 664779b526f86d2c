\* A user that asks for a mean right after it prepared the channel.
SPECIFICATION Spec
CONSTANTS
  NONE = NONE
  Channel <- OnlyPot
  N_SAMPLES = 4
INVARIANT
  MeanIsOfPrepared
