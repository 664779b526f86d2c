\* A slot that is bound again keeps the samples of its last switch.
SPECIFICATION Spec
CONSTANTS
  d2 = d2
  d3 = d3
  NONE = NONE
  Pin <- Pins
  MAX_SWITCH = 1
  WINDOW = 3
SYMMETRY PinSymmetry
INVARIANT
  EdgeIsDebounced
