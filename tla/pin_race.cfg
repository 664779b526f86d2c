\* Main and the action of the timer write different pins of one port.
SPECIFICATION Spec
CONSTANTS
  led = led
  relay = relay
  Led = led
  Pins <- LedAndRelay
  PinOps <- SetOps
  ActionOps <- SetOps
  Counts <- OneCount
  TOP = 4
  SinceMax = 5
INVARIANT
  PinsAsWritten
