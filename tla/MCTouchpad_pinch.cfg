\* The second finger lands after the first.
SPECIFICATION Spec
CONSTANTS
  MaxFingers = 3
  TapTimeout = 1
  DwtTimeout = 2
  Configs <- BothOn
  Clicks <- LeftRight
  Axes <- XY
  None = None
INVARIANTS PinchBeginsWithTwoFingers
