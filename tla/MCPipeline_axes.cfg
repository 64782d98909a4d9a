\* A scroll event, read axis by axis.
SPECIFICATION Spec
CONSTANTS
  kbd = kbd
  mouse = mouse
  pad = pad
  Dev <- Three
  Class <- Kinds
  Configured <- Pad
  Pluggable <- Pad
  Changes <- Some
  BatchSize = 2
  QueueBound <- Bounds
  DwtTimeout = 1
  None = None
INVARIANTS ScrollHasItsAxis
