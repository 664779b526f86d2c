\* Main sets, clears and toggles two pins of a port, the action of the timer
\* one of them.
SPECIFICATION FairSpec
CONSTANTS
  led = led
  relay = relay
  Led = led
  Pins <- LedAndRelay
  PinOps <- AllOps
  ActionOps <- BlinkOps
  Counts <- TestCounts
  TOP = 3
  SinceMax = 3
INVARIANTS
  TypeOK
  ActionIsWhole
  FiresOnTime
PROPERTIES
  NoOtherLoss
  ArmedFires
