SPECIFICATION Spec
CONSTANTS
  None = None
  Sent = Sent
  Refused = Refused
  Bounds <- MCBounds
INVARIANTS TransitionSeen FiguresCatchUp
PROPERTIES PollingStops
